---- MODULE Spec2Model ----
(***************************************************************************)
(* A model of "try" (trycmd): the command builder trycmd_make_shell_cmd,   *)
(* the subprocess runner trycmd_run_subcommand, the result banner and the  *)
(* entry point trycmd_main.                                                *)
(*                                                                         *)
(* Memory is a sequence of bytes (0..255); address a is mem[a + 1].        *)
(* Strings are sequences of character codes, stored NUL-terminated.        *)
(* Pointers are PtrSize bytes, little-endian; NULL is address 0.           *)
(***************************************************************************)
EXTENDS Integers, Sequences, FiniteSets, TLC

VARIABLES
    mem,        \* the process memory: strings of the caller, then the buffer arena
    opts,       \* struct trycmd_opts
    ndebug,     \* TRUE when the build defines NDEBUG (assert() compiles to nothing)
    buf,        \* the caller's buffer: [addr, len] as passed to the last builder call
    argv,       \* the caller's char** argv, written through argv_out
    ret,        \* value returned by the last builder call
    rets,       \* every value returned by the builder so far
    calls,      \* number of builder calls made by the API client
    arena,      \* [base, size]: the storage the caller's buffers are carved from
    pc,         \* position of the caller
    debug_enabled,  \* trycmd_debug_enabled
    read_rc,    \* what trycmd_read_options returned to trycmd_main
    req_buflen, \* trycmd_run_subcommand: req_buflen
    child_pid,  \* trycmd_run_subcommand: child_pid (0 until fork has returned)
    wait_result,    \* trycmd_run_subcommand: wait_result
    result,     \* trycmd_run_subcommand: result
    child,      \* the process created by fork: [state, status, exec]
    others,     \* the caller's other child processes: sequence of [state, status]
    invoked,    \* what the shell made of its arguments
    trace,      \* the observable events so far, in order
    run_result, \* value returned by trycmd_run_subcommand
    main_result,    \* value returned by trycmd_main
    variant,    \* the file whose trycmd_needs_quoting, trycmd_pretty_print_arg and
                \* trycmd_print_argv the build links: "util" or "subcmd"
    out,        \* the stream written by the banner and the printers: [fd, tty, text]
    err,        \* stderr: [fd, tty, text]
    print_prefix, \* the prefix a client hands to trycmd_print_argv
    env,        \* the environment: TRY_INTERACTIVE, SHELL and TRY_COLOR, each set or not
    cmd_argv,   \* argv of the last call of trycmd_read_options, argv[0] first
    optind,     \* getopt's index of the next element of argv
    nextchar,   \* getopt's place in a group of short options: the characters left
    align_arg,  \* the arguments of the last call of trycmd_align_sz
    align_ret   \* the value it returned

builder_vars == <<buf, ret, rets, calls>>

runner_vars == <<debug_enabled, read_rc, req_buflen, child_pid, wait_result, result,
                 child, others, invoked, trace, run_result, main_result>>

io_vars == <<variant, out, err, print_prefix>>

lib_vars == <<env, cmd_argv, optind, nextchar, align_arg, align_ret>>

vars == <<mem, opts, ndebug, arena, pc, argv, builder_vars, runner_vars, io_vars, lib_vars>>

---------------------------------------------------------------------------
(* Program and platform constants.                                         *)

PtrSize == 8
PATH_MAX == 4096
NUL == 0
eol_marker == 255
FillByte == 239
NULL == 0

(* Bounds of the model.                                                    *)
MaxStrLen == 2
MaxCalls == 2
MaxOthers == 1
MaxSignal == 64

---------------------------------------------------------------------------
(* Characters and strings.                                                 *)

Asc == ("a" :> 97) @@ ("b" :> 98) @@ ("c" :> 99) @@ ("i" :> 105)
       @@ ("s" :> 115) @@ ("/" :> 47) @@ ("-" :> 45) @@ (" " :> 32)
       @@ (";" :> 59) @@ ("'" :> 39) @@ ("\"" :> 34) @@ ("$" :> 36)
       @@ ("@" :> 64) @@ ("_" :> 95) @@ ("." :> 46) @@ ("*" :> 42) @@ ("\\" :> 92)
       @@ ("=" :> 61) @@ (":" :> 58) @@ ("(" :> 40) @@ (")" :> 41)
       @@ ("[" :> 91) @@ ("0" :> 48) @@ ("1" :> 49) @@ ("2" :> 50)
       @@ ("3" :> 51) @@ ("m" :> 109) @@ ("S" :> 83) @@ ("F" :> 70)
       @@ ("U" :> 85) @@ ("d" :> 100) @@ ("e" :> 101) @@ ("g" :> 103)
       @@ ("l" :> 108) @@ ("r" :> 114) @@ ("t" :> 116) @@ ("u" :> 117)
       @@ ("y" :> 121) @@ ("n" :> 110) @@ ("v" :> 118) @@ ("o" :> 111)
       @@ ("w" :> 119) @@ ("h" :> 104) @@ ("x" :> 120) @@ ("p" :> 112)
       @@ ("A" :> 65) @@ ("C" :> 67) @@ ("?" :> 63) @@ ("+" :> 43)

Str(s) == [k \in 1..Len(s) |-> Asc[s[k]]]

\* '\n'
NL == 10

\* The suffix without its quotes.
shell_arg0_ext_mut == Str(<<"$", "@">>)

shell_arg0_ext        == Str(<<"\"", "$", "@", "\"">>)
shell_opt_interactive == Str(<<"-", "i">>)
shell_opt_command     == Str(<<"-", "c">>)
shell_opts_end        == Str(<<"-", "-">>)

\* sizeof of a char array initialised from a string literal: its length plus the NUL.
SizeofStr(s) == Len(s) + 1

\* All strings of length lo..hi over the character set cs.
StringsOver(cs, lo, hi) == UNION {[1..n -> cs] : n \in lo..hi}

Repeat(c, n) == [k \in 1..n |-> c]

---------------------------------------------------------------------------
(* Memory.                                                                 *)

Rd(m, a) == m[a + 1]

\* Store the bytes bs at address a (a store past the end of the modelled
\* memory has no cell to land in; the arena is sized so that none occurs).
Write(m, a, bs) ==
    LET n == IF a + Len(bs) <= Len(m) THEN Len(bs) ELSE Len(m) - a
    IN  SubSeq(m, 1, a) \o SubSeq(bs, 1, n) \o SubSeq(m, a + n + 1, Len(m))

RECURSIVE BytesOf(_, _)
BytesOf(p, k) == IF k = 0 THEN <<>> ELSE <<p % 256>> \o BytesOf(p \div 256, k - 1)

\* The bytes of a pointer, least significant first.
PtrBytes(p) == BytesOf(p, PtrSize)

RECURSIVE ValueOf(_, _, _)
ValueOf(m, a, k) == IF k = 0 THEN 0 ELSE Rd(m, a) + 256 * ValueOf(m, a + 1, k - 1)

\* The pointer stored at address a. Every address of the modelled memory
\* fits in two bytes; a pointer with a higher byte set points nowhere in it.
WildPtr == 0 - 1
ReadPtr(m, a) ==
    IF \E k \in 2..(PtrSize - 1) : Rd(m, a + k) # 0 THEN WildPtr ELSE ValueOf(m, a, 2)

\* strnlen: the number of bytes before the first NUL, at most max.
strnlen(m, a, max) ==
    CHOOSE n \in 0..max :
        /\ (n = max \/ Rd(m, a + n) = NUL)
        /\ \A k \in 0..(n - 1) : Rd(m, a + k) # NUL

\* The C string at address a, as a reader (strcmp, execv, printf %s) sees it.
CStr(m, a) == SubSeq(m, a + 1, a + strnlen(m, a, Len(m) - a))

\* strncpy(dst, src, n): n bytes are stored, the source up to its NUL and
\* then NUL padding; no NUL is stored when the source has n or more bytes.
strncpy_bytes(src, n) ==
    IF Len(src) >= n THEN SubSeq(src, 1, n) ELSE src \o [k \in 1..(n - Len(src)) |-> NUL]

\* snprintf(dst, size, ...): at most size - 1 bytes of the text, then a NUL;
\* the return value is the length of the whole text.
snprintf_bytes(text, size) ==
    LET n == IF Len(text) < size - 1 THEN Len(text) ELSE size - 1
    IN  SubSeq(text, 1, n) \o <<NUL>>

---------------------------------------------------------------------------
(* trycmd_util.c                                                           *)

\* A size_t is 64 bits: SizeLimbs digits in base SizeBase, the lowest first.
SizeBase == 65536
SizeLimbs == 4

ToSize(n) == <<n % SizeBase, n \div SizeBase, 0, 0>>

\* The value of a size_t below SizeBase * SizeBase / 2.
FromSize(s) == s[1] + SizeBase * s[2]

SIZE_MAX == [k \in 1..SizeLimbs |-> SizeBase - 1]

\* s % n
RECURSIVE SizeModFrom(_, _, _, _)
SizeModFrom(s, n, k, r) ==
    IF k = 0 THEN r ELSE SizeModFrom(s, n, k - 1, (r * SizeBase + s[k]) % n)

SizeMod(s, n) == SizeModFrom(s, n, SizeLimbs, 0)

\* s + n for n below SizeBase: the digits of the sum, and the carry out of
\* the highest.
RECURSIVE SizeAddFrom(_, _, _)
SizeAddFrom(s, k, carry) ==
    IF k > SizeLimbs THEN [val |-> <<>>, carry |-> carry]
    ELSE LET d    == s[k] + carry
             rest == SizeAddFrom(s, k + 1, d \div SizeBase)
         IN  [val |-> <<d % SizeBase>> \o rest.val, carry |-> rest.carry]

\* s + n in size_t: the carry is lost.
SizeAdd(s, n) == SizeAddFrom(s, 1, n).val

\* The offset is added also when there is none to add.
trycmd_align_sz_mut(sz, alignment) == SizeAdd(sz, alignment - SizeMod(sz, alignment))

trycmd_align_sz(sz, alignment) ==
    LET offs == SizeMod(sz, alignment)
    IN  SizeAdd(sz, IF offs # 0 THEN alignment - offs ELSE 0)

trycmd_align_ptr(ptr, alignment) ==
    LET offs == ptr % alignment
    IN  ptr + (IF offs # 0 THEN alignment - offs ELSE 0)

---------------------------------------------------------------------------
(* trycmd_subcmd.c: trycmd_make_shell_cmd                                  *)

\* !!x
Bool01(x) == IF x # 0 THEN 1 ELSE 0

RECURSIVE WriteAll(_, _)
WriteAll(m, ws) ==
    IF ws = <<>> THEN m ELSE WriteAll(Write(m, ws[1][1], ws[1][2]), Tail(ws))

argc_required(o) == 5 + Bool01(o.opt_interactive) + o.opt_sub_argc

shell_sz(o, m) == strnlen(m, o.opt_shell, PATH_MAX) + 1

shell_arg0_sz(o, m) ==
    strnlen(m, o.opt_sub_argv[1], PATH_MAX) + SizeofStr(shell_arg0_ext) + 1

argc_sz(o) == PtrSize * argc_required(o)

min_buflen(o, m) ==
    argc_sz(o)
    + shell_sz(o, m)
    + SizeofStr(shell_opt_interactive) * Bool01(o.opt_interactive)
    + SizeofStr(shell_opt_command)
    + SizeofStr(shell_opts_end)
    + shell_arg0_sz(o, m)
    + 1

required_buflen(o, m) == FromSize(trycmd_align_sz(ToSize(min_buflen(o, m)), PtrSize))

\* Room for the aligned size less the alignment slack.
SufficientSpace_mut(buflen, required) == buflen + PtrSize >= required

\* The test "if sufficient buffer space is available".
SufficientSpace(buflen, required) == buflen >= required

\* The name and the suffix run together.
ScriptText_mut(o, m) == CStr(m, o.opt_sub_argv[1]) \o shell_arg0_ext

\* The text formatted by snprintf("%s %s", opt_sub_argv[0], shell_arg0_ext).
ScriptText(o, m) == CStr(m, o.opt_sub_argv[1]) \o Str(<<" ">>) \o shell_arg0_ext

\* The shell's options in the order they are placed: each with its text.
ShellOptions(o) ==
    (IF o.opt_interactive # 0 THEN <<shell_opt_interactive>> ELSE <<>>)
    \o <<shell_opt_command, shell_opts_end>>

\* Addresses of consecutive slots starting at a, one per string of ss, each
\* slot as long as sizeof of its string.
RECURSIVE SlotAddrs(_, _)
SlotAddrs(ss, a) ==
    IF ss = <<>> THEN <<>> ELSE <<a>> \o SlotAddrs(Tail(ss), a + SizeofStr(ss[1]))

RECURSIVE SlotsSize(_)
SlotsSize(ss) == IF ss = <<>> THEN 0 ELSE SizeofStr(ss[1]) + SlotsSize(Tail(ss))

\* The writing branch (buflen >= required_buflen) of trycmd_make_shell_cmd.
\* nd is NDEBUG. The result says what was returned, the memory and *argv_out
\* afterwards, and whether an assertion aborted the process.
MakeShellCmdWrite(o, m, buffer, nd) ==
    LET minb        == min_buflen(o, m)
        aligned_buf == trycmd_align_ptr(buffer, PtrSize)
        entry(j)    == aligned_buf + PtrSize * j
        sopts       == ShellOptions(o)
        p_shell     == aligned_buf + argc_sz(o)
        p_opts      == SlotAddrs(sopts, p_shell + shell_sz(o, m))
        p_script    == p_shell + shell_sz(o, m) + SlotsSize(sopts)
        text        == ScriptText(o, m)
        printed     == Len(text)
        nfixed      == 2 + Len(sopts)
        markers     == << <<aligned_buf + minb - 2, <<eol_marker, eol_marker>> >> >>
        shell       == << <<entry(0), PtrBytes(p_shell)>>,
                          <<p_shell, strncpy_bytes(CStr(m, o.opt_shell), shell_sz(o, m))>> >>
        options     == [k \in 1..(2 * Len(sopts)) |->
                          IF k % 2 = 1
                          THEN <<entry((k + 1) \div 2), PtrBytes(p_opts[(k + 1) \div 2])>>
                          ELSE <<p_opts[k \div 2],
                                 strncpy_bytes(sopts[k \div 2], SizeofStr(sopts[k \div 2]))>>]
        script      == << <<entry(nfixed - 1), PtrBytes(p_script)>>,
                          <<p_script, snprintf_bytes(text, shell_arg0_sz(o, m))>> >>
        m1          == WriteAll(m, markers \o shell \o options \o script)
        snprintf_ok == printed > 0 /\ printed = shell_arg0_sz(o, m) - 1
        terminator  == << <<p_script + printed, <<NUL>> >> >>
        positional  == [k \in 1..o.opt_sub_argc |->
                          <<entry(nfixed + k - 1), PtrBytes(o.opt_sub_argv[k])>>]
        last        == << <<entry(nfixed + o.opt_sub_argc), PtrBytes(NULL)>> >>
        m2          == WriteAll(m1, terminator \o positional \o last)
        markers_ok  == /\ Rd(m2, aligned_buf + minb - 2) = NUL
                       /\ Rd(m2, aligned_buf + minb - 1) = eol_marker
    IN  IF ~nd /\ ~snprintf_ok
        THEN [ret |-> 0, mem |-> m1, argv |-> aligned_buf, aborted |-> TRUE]
        ELSE IF ~nd /\ ~markers_ok
        THEN [ret |-> 0, mem |-> m2, argv |-> aligned_buf, aborted |-> TRUE]
        ELSE [ret |-> required_buflen(o, m), mem |-> m2, argv |-> aligned_buf,
              aborted |-> FALSE]

\* trycmd_make_shell_cmd(opts, buffer, buflen, argv_out), with *argv_out
\* holding argv_in before the call.
trycmd_make_shell_cmd(o, m, buffer, buflen, argv_in, nd) ==
    IF SufficientSpace(buflen, required_buflen(o, m))
    THEN MakeShellCmdWrite(o, m, buffer, nd)
    ELSE [ret |-> required_buflen(o, m), mem |-> m, argv |-> argv_in, aborted |-> FALSE]

\* The vector at address a as execv and the tests read it: the strings its
\* entries point to, up to the first NULL entry (at most n entries are read).
RECURSIVE ReadVector(_, _, _)
ReadVector(m, a, n) ==
    IF n = 0 \/ ReadPtr(m, a) = NULL THEN <<>>
    ELSE <<CStr(m, ReadPtr(m, a))>> \o ReadVector(m, a + PtrSize, n - 1)

---------------------------------------------------------------------------
(* Processes and wait statuses: fork, execv, waitpid and <sys/wait.h>.     *)

TRYCMD_SIGNAL_BASE == 128
SIGABRT == 6
SIGSEGV == 11

\* What fork returns in the parent: the pid of the child, or -1.
ChildPid == 2
ForkFailed == 0 - 1

\* What waitpid returns when there is no child to wait for.
WaitFailed == 0 - 1

\* The pid of the caller's p-th other child.
OtherPid(p) == ChildPid + p

\* The status word the kernel reports for a child that exited with code c,
\* was killed by signal s (with or without a core dump), was stopped by
\* signal s, or was continued.
ExitStatus(c) == (c % 256) * 256
SigStatus(s, core) == s + 128 * core
StopStatus(s) == s * 256 + 127
ContinuedStatus == 256 * 256 - 1

WaitStatuses ==
    {ExitStatus(c) : c \in 0..255}
    \cup {SigStatus(s, core) : s \in 1..MaxSignal, core \in {0, 1}}
    \cup {StopStatus(s) : s \in 1..MaxSignal}
    \cup {ContinuedStatus}

\* (signed char) x
SignedChar(x) == LET b == x % 256 IN IF b >= 128 THEN b - 256 ELSE b

\* The low byte, core flag included.
WTERMSIG_mut(s) == s % 256

WTERMSIG(s) == s % 128
WEXITSTATUS(s) == (s \div 256) % 256
WIFEXITED(s) == WTERMSIG(s) = 0
WIFSIGNALED(s) == SignedChar((s % 128) + 1) \div 2 > 0

\* The conversion of the wait status at the end of trycmd_run_subcommand.
ClassifyStatus(s) ==
    IF WIFEXITED(s) THEN WEXITSTATUS(s)
    ELSE IF WIFSIGNALED(s) THEN TRYCMD_SIGNAL_BASE + WTERMSIG(s)
    ELSE 255

NoChild == [state |-> "none", status |-> 0, exec |-> "none"]

\* Statuses the shell ends with in the runs of the whole program, and the
\* status of another child of the caller.
ExitCodes == {0, 1, 127}
ChildStatuses == {ExitStatus(c) : c \in ExitCodes} \cup {SigStatus(SIGSEGV, 1)}
OtherStatuses == {ExitStatus(3)}

---------------------------------------------------------------------------
(* The shell started by execv: sh [-i] -c -- script name arg...            *)
(* It reads its options, takes the first operand as the script, the next   *)
(* as $0 and the rest as the positional parameters, splits the script into *)
(* commands at ';' and into words at blanks outside quotes, expands $@,    *)
(* and runs each command that has a word.                                  *)

\* Parts of a word that are not characters: "$@" inside double quotes, and
\* $@ outside quotes.
AtQuoted == 0 - 1
AtPlain == 0 - 2

NoWord == [on |-> FALSE, parts |-> <<>>]

RECURSIVE Scan(_, _, _, _, _, _)
\* s: the script, i: the position, q: "n" outside quotes, "s" in single and
\* "d" in double quotes, w: the word being read, ws: the words of the
\* command being read, cs: the commands read.
Scan(s, i, q, w, ws, cs) ==
    LET endw   == IF w.on THEN Append(ws, w.parts) ELSE ws
        c      == s[i]
        at     == c = Asc["$"] /\ i < Len(s) /\ s[i + 1] = Asc["@"]
        lit(x) == [on |-> TRUE, parts |-> Append(w.parts, x)]
        open   == [on |-> TRUE, parts |-> w.parts]
        fail   == [error |-> TRUE, cmds |-> <<>>]
    IN  IF i > Len(s)
        THEN IF q # "n" THEN fail
             ELSE [error |-> FALSE, cmds |-> IF endw = <<>> THEN cs ELSE Append(cs, endw)]
        ELSE IF q = "s"
        THEN IF c = Asc["'"] THEN Scan(s, i + 1, "n", w, ws, cs)
             ELSE Scan(s, i + 1, "s", lit(c), ws, cs)
        ELSE IF q = "d"
        THEN IF c = Asc["\""] THEN Scan(s, i + 1, "n", w, ws, cs)
             ELSE IF at THEN Scan(s, i + 2, "d", lit(AtQuoted), ws, cs)
             ELSE Scan(s, i + 1, "d", lit(c), ws, cs)
        ELSE IF c = Asc[" "] THEN Scan(s, i + 1, "n", NoWord, endw, cs)
        ELSE IF c = Asc[";"]
        THEN IF endw = <<>> THEN fail
             ELSE Scan(s, i + 1, "n", NoWord, <<>>, Append(cs, endw))
        ELSE IF c = Asc["'"] THEN Scan(s, i + 1, "s", open, ws, cs)
        ELSE IF c = Asc["\""] THEN Scan(s, i + 1, "d", open, ws, cs)
        ELSE IF at THEN Scan(s, i + 2, "n", lit(AtPlain), ws, cs)
        ELSE Scan(s, i + 1, "n", lit(c), ws, cs)

RECURSIVE SplitBlanks(_, _)
\* The fields of the text s split at blanks; cur is the field being read.
SplitBlanks(s, cur) ==
    IF s = <<>> THEN (IF cur = <<>> THEN <<>> ELSE <<cur>>)
    ELSE IF Head(s) = Asc[" "]
    THEN (IF cur = <<>> THEN <<>> ELSE <<cur>>) \o SplitBlanks(Tail(s), <<>>)
    ELSE SplitBlanks(Tail(s), Append(cur, Head(s)))

RECURSIVE SplitAll(_)
SplitAll(ps) == IF ps = <<>> THEN <<>> ELSE SplitBlanks(Head(ps), <<>>) \o SplitAll(Tail(ps))

RECURSIVE Fields(_, _, _, _)
\* The fields a word expands to: characters join the current field, the
\* parameters of $@ each make a field, the first joined to what precedes it
\* and the last to what follows; no parameters, no field.
Fields(parts, ps, fs, cur) ==
    IF parts = <<>> THEN (IF cur.on THEN Append(fs, cur.text) ELSE fs)
    ELSE LET x    == Head(parts)
             list == IF x = AtQuoted THEN ps ELSE SplitAll(ps)
         IN  IF x >= 0
             THEN Fields(Tail(parts), ps, fs, [on |-> TRUE, text |-> Append(cur.text, x)])
             ELSE IF list = <<>> THEN Fields(Tail(parts), ps, fs, cur)
             ELSE IF Len(list) = 1
             THEN Fields(Tail(parts), ps, fs, [on |-> TRUE, text |-> cur.text \o list[1]])
             ELSE Fields(Tail(parts), ps,
                         fs \o <<cur.text \o list[1]>> \o SubSeq(list, 2, Len(list) - 1),
                         [on |-> TRUE, text |-> list[Len(list)]])

RECURSIVE ExpandCommand(_, _)
ExpandCommand(words, ps) ==
    IF words = <<>> THEN <<>>
    ELSE Fields(Head(words), ps, <<>>, [on |-> Head(words) = <<>>, text |-> <<>>])
         \o ExpandCommand(Tail(words), ps)

RECURSIVE SkipOptions(_)
\* The operands: what follows the options, "--" ending them.
SkipOptions(as) ==
    IF as = <<>> THEN <<>>
    ELSE IF as[1] = shell_opts_end THEN Tail(as)
    ELSE IF as[1] \in {shell_opt_interactive, shell_opt_command} THEN SkipOptions(Tail(as))
    ELSE as

NotInvoked == [ran |-> FALSE, error |-> FALSE, zero |-> <<>>, cmds |-> <<>>]

\* What the shell does with the vector vec: its $0 and, unless the script is
\* a syntax error, the commands it runs, each as <<name, arg, ...>>.
ShellRun(vec) ==
    LET operands == SkipOptions(Tail(vec))
        zero     == IF Len(operands) >= 2 THEN operands[2] ELSE vec[1]
        params   == SubSeq(operands, 3, Len(operands))
        parsed   == IF operands = <<>> THEN [error |-> TRUE, cmds |-> <<>>]
                    ELSE Scan(operands[1], 1, "n", NoWord, <<>>, <<>>)
        expanded == [k \in 1..Len(parsed.cmds) |-> ExpandCommand(parsed.cmds[k], params)]
    IN  [ran |-> TRUE, error |-> parsed.error, zero |-> zero,
         cmds |-> SelectSeq(expanded, LAMBDA f : f # <<>>)]

---------------------------------------------------------------------------
(* The process image and the inputs.                                       *)

NullPage == Repeat(NUL, PtrSize)

RECURSIVE Flatten(_)
Flatten(ss) == IF ss = <<>> THEN <<>> ELSE ss[1] \o <<NUL>> \o Flatten(Tail(ss))

\* The caller's strings: an unmapped page at address 0, the shell path, the
\* words of the subcommand, then padding up to a pointer boundary.
StringImage(shell, subs) ==
    LET strs == NullPage \o Flatten(<<shell>> \o subs)
    IN  strs \o Repeat(NUL, FromSize(trycmd_align_sz(ToSize(Len(strs)), PtrSize)) - Len(strs))

\* struct trycmd_opts as trycmd_read_options fills it: opt_sub_argv points
\* into the NULL-terminated argv of main.
OptsFor(shell, subs, interactive, verbose) ==
    [opt_interactive |-> interactive,
     opt_color       |-> "never",
     opt_shell       |-> PtrSize,
     opt_verbose     |-> verbose,
     opt_help        |-> 0,
     opt_sub_argc    |-> Len(subs),
     opt_sub_argv    |-> SlotAddrs(subs, PtrSize + SizeofStr(shell)) \o <<NULL>>]

\* Room for a buffer of the required size at any offset below PtrSize, and
\* for what an overrun of it can reach.
ArenaSize(o, m) == required_buflen(o, m) + 2 * PtrSize

\* Subcommand words: plain ones and ones with characters special to a shell.
PlainChars == {Asc["a"]}
ShellPaths == StringsOver({Asc["/"]}, 1, MaxStrLen)
ArgLists   == {<<>>, <<Str(<<"b">>)>>, <<Str(<<" ", ";">>), Str(<<"b">>)>>}

\* <<shell, subcommand>> pairs handed to the builder.
BuildNames  == StringsOver(PlainChars, 1, MaxStrLen) \cup {Str(<<"a", " ", ";">>)}
BuildInputs == {<<sh, <<n>> \o as>> : sh \in ShellPaths, n \in BuildNames, as \in ArgLists}

\* Strings one byte longer than the PATH_MAX that bounds strnlen.
LongShell  == Repeat(Asc["/"], PATH_MAX + 1)
LongName   == Repeat(Asc["a"], PATH_MAX + 1)
LongInputs == {<<LongShell, <<Str(<<"a">>)>> >>, <<Str(<<"/">>), <<LongName>> >>}

---------------------------------------------------------------------------
(* A line of text as a POSIX shell reads it into words: within single      *)
(* quotes every character is literal; outside them a backslash makes the   *)
(* next character literal, blanks separate words, a newline ends the line, *)
(* and a character special to the shell is not a literal one.              *)

Blanks == {Asc[" "]}
ShellSpecial == {Asc[";"], Asc["$"], Asc["\""], Asc["*"], Asc["("], Asc[")"],
                 Asc["["], Asc["="]}

\* q is "n" outside quotes and "s" within single quotes; w is the word being
\* read, open whether one was begun, ws the words read.
RECURSIVE Words(_, _, _, _, _, _)
Words(s, i, q, w, open, ws) ==
    LET done == IF open THEN Append(ws, w) ELSE ws
    IN  IF i > Len(s)
        THEN [error |-> q = "s", words |-> done]
        ELSE IF q = "s"
        THEN IF s[i] = Asc["'"]
             THEN Words(s, i + 1, "n", w, TRUE, ws)
             ELSE Words(s, i + 1, "s", Append(w, s[i]), TRUE, ws)
        ELSE IF s[i] = Asc["'"]
        THEN Words(s, i + 1, "s", w, TRUE, ws)
        ELSE IF s[i] = Asc["\\"]
        THEN IF i = Len(s)
             THEN [error |-> TRUE, words |-> done]
             ELSE IF s[i + 1] = NL
             THEN Words(s, i + 2, "n", w, open, ws)
             ELSE Words(s, i + 2, "n", Append(w, s[i + 1]), TRUE, ws)
        ELSE IF s[i] \in Blanks
        THEN Words(s, i + 1, "n", <<>>, FALSE, done)
        ELSE IF s[i] = NL
        THEN [error |-> i < Len(s), words |-> done]
        ELSE IF s[i] \in ShellSpecial
        THEN [error |-> TRUE, words |-> done]
        ELSE Words(s, i + 1, "n", Append(w, s[i]), TRUE, ws)

ShellWords(s) == Words(s, 1, "n", <<>>, FALSE, <<>>)

---------------------------------------------------------------------------
(* Streams and the printers of trycmd_util.c and trycmd_subcmd.c. A stream *)
(* is [fd, tty, text]: its descriptor (-1 for a stream in memory), whether *)
(* the descriptor is a terminal, and the characters written so far.        *)

ESC == 27
QUOTE == Asc["'"]
BACKSLASH == Asc["\\"]
NoFd == 0 - 1
DividerWidth == 78

\* The two files that define the printers.
Variants == {"util", "subcmd"}

Stream(fd, tty) == [fd |-> fd, tty |-> tty, text |-> <<>>]

fputs(os, s) == [os EXCEPT !.text = @ \o s]

fileno(os) == os.fd

\* isatty(fd): 1 for an open descriptor of a terminal, 0 otherwise (a
\* descriptor of -1 fails with EBADF).
isatty(fd, tty) == IF fd >= 0 /\ tty THEN 1 ELSE 0

\* isalnum in the "C" locale.
isalnum(c) == c \in (48..57) \cup (65..90) \cup (97..122)

\* Always on for auto.
trycmd_is_color_enabled_mut(c, os) ==
    CASE c = "never"  -> 0
      [] c = "always" -> 1
      [] c = "auto"   -> 1
      [] OTHER        -> 0

trycmd_is_color_enabled(c, os) ==
    CASE c = "never"  -> 0
      [] c = "always" -> 1
      [] c = "auto"   -> isatty(fileno(os), os.tty)
      [] OTHER        -> 0

\* trycmd_util.c allows '_', '-', '.' and '/'; trycmd_subcmd.c does not allow '.'.
trycmd_needs_quoting(v, c) ==
    IF c \in {Asc["_"], Asc["-"], Asc["/"]} \cup (IF v = "util" THEN {Asc["."]} ELSE {})
    THEN 0
    ELSE IF isalnum(c) THEN 0 ELSE 1

\* strchr(s, c): the index of the first c in s, 0 when there is none.
strchr(s, c) ==
    IF \E k \in 1..Len(s) : s[k] = c
    THEN CHOOSE k \in 1..Len(s) : s[k] = c /\ \A j \in 1..(k - 1) : s[j] # c
    ELSE 0

\* The quotes left unescaped.
QuoteFrom_mut(apos) == <<QUOTE>> \o apos \o <<QUOTE>>

\* The quoting loop from apos on: each stretch before a quote within quotes
\* when it is not empty, each quote as \', and what remains within quotes.
RECURSIVE QuoteFrom(_)
QuoteFrom(apos) ==
    LET bpos == strchr(apos, QUOTE)
    IN  IF bpos = 0
        THEN IF apos # <<>> THEN <<QUOTE>> \o apos \o <<QUOTE>> ELSE <<>>
        ELSE (IF bpos # 1
              THEN <<QUOTE>> \o SubSeq(apos, 1, bpos - 1) \o <<QUOTE>>
              ELSE <<>>)
             \o <<BACKSLASH, QUOTE>>
             \o QuoteFrom(SubSeq(apos, bpos + 1, Len(apos)))

\* Nothing is quoted.
trycmd_pretty_print_arg_mut(v, arg) == arg

\* The characters trycmd_pretty_print_arg writes for arg.
trycmd_pretty_print_arg(v, arg) ==
    IF \A k \in 1..Len(arg) : trycmd_needs_quoting(v, arg[k]) = 0
    THEN arg
    ELSE QuoteFrom(arg)

RECURSIVE PrintArgs(_, _)
PrintArgs(v, args) ==
    IF args = <<>> THEN <<>>
    ELSE <<Asc[" "]>> \o trycmd_pretty_print_arg(v, args[1]) \o PrintArgs(v, Tail(args))

\* The characters trycmd_print_argv writes: trycmd_util.c finishes with a
\* newline, trycmd_subcmd.c does not.
trycmd_print_argv(v, prefix, args) ==
    prefix \o PrintArgs(v, args) \o (IF v = "util" THEN <<NL>> ELSE <<>>)

\* The strings of a vector of pointers, up to its first NULL.
RECURSIVE ArgvStrings(_, _)
ArgvStrings(m, ptrs) ==
    IF ptrs = <<>> \/ ptrs[1] = NULL THEN <<>>
    ELSE <<CStr(m, ptrs[1])>> \o ArgvStrings(m, Tail(ptrs))

\* printf's %d.
RECURSIVE Digits(_)
Digits(n) == IF n < 10 THEN <<48 + n>> ELSE Digits(n \div 10) \o <<48 + (n % 10)>>

Decimal(n) == IF n < 0 THEN <<Asc["-"]>> \o Digits(0 - n) ELSE Digits(n)

divider_line == Repeat(Asc["="], DividerWidth)

EXIT_SUCCESS == 0

Green == <<ESC>> \o Str(<<"[", "1", ";", "3", "2", "m">>)
Red   == <<ESC>> \o Str(<<"[", "1", ";", "3", "1", "m">>)
Reset == <<ESC>> \o Str(<<"[", "0", "m">>)

Label(exit_status) ==
    IF exit_status = EXIT_SUCCESS
    THEN Str(<<"S", "u", "c", "c", "e", "s", "s", ":">>)
    ELSE Str(<<"F", "a", "i", "l", "e", "d", " ", "(", "s", "t", "a", "t", "u", "s", "=">>)
         \o Decimal(exit_status) \o Str(<<")", ":">>)

\* The characters trycmd_show_exit_status writes: the prologue, the command
\* and the epilogue. opt_color is not read.
BannerText(v, o, m, exit_status) ==
    LET colour == IF exit_status = EXIT_SUCCESS THEN Green ELSE Red
    IN  colour \o divider_line \o <<NL>> \o Label(exit_status) \o Reset
        \o trycmd_print_argv(v, <<>>, ArgvStrings(m, o.opt_sub_argv))
        \o <<NL>> \o colour \o divider_line \o Reset \o <<NL>>

\* The opening words of the text of trycmd_print_usage.
UsageText == Str(<<"U", "s", "a", "g", "e", ":", " ", "t", "r", "y">>)

\* The prefix of the echo.
EchoPrefix == Str(<<"t", "r", "y", ":">>)

\* stdout and stderr of a process, nothing written.
StdStreams(v, tty) ==
    /\ variant = v
    /\ out = Stream(1, tty)
    /\ err = Stream(2, tty)
    /\ print_prefix = <<>>

---------------------------------------------------------------------------
(* trycmd_opts.c: the environment, getopt_long and trycmd_read_options.    *)
(* A string that may be missing (a char* that may be NULL) is [set, val].  *)

NullStr == [set |-> FALSE, val |-> <<>>]
StrPtr(s) == [set |-> TRUE, val |-> s]

\* The default shell of the usage message and of trycmd.h.
DEF_SHELL_PATH == Str(<<"/", "b", "i", "n", "/", "s", "h">>)

EndOfOptions == 0 - 1
Failure == 0 - 1

\* The environment is not looked at.
trycmd_getenv_s_mut(e, key, def) == def

trycmd_getenv_s(e, key, def) == IF e[key].set THEN e[key] ELSE def

\* atoi: blanks are skipped, then an optional sign, then the digits up to
\* the first character that is none.
RECURSIVE AtoiDigits(_, _, _)
AtoiDigits(s, i, acc) ==
    IF i <= Len(s) /\ s[i] \in 48..57
    THEN AtoiDigits(s, i + 1, 10 * acc + (s[i] - 48))
    ELSE acc

RECURSIVE SkipBlanks(_, _)
SkipBlanks(s, i) == IF i <= Len(s) /\ s[i] = Asc[" "] THEN SkipBlanks(s, i + 1) ELSE i

atoi(s) ==
    LET i == SkipBlanks(s, 1)
    IN  IF i <= Len(s) /\ s[i] = Asc["-"] THEN 0 - AtoiDigits(s, i + 1, 0)
        ELSE IF i <= Len(s) /\ s[i] = Asc["+"] THEN AtoiDigits(s, i + 1, 0)
        ELSE AtoiDigits(s, i, 0)

trycmd_getenv_i(e, key, def) ==
    LET value == trycmd_getenv_s(e, key, NullStr)
    IN  IF value.set THEN atoi(value.val) ELSE def

\* A string that is not a WHEN counts as always.
trycmd_parse_when_mut(when, color) ==
    IF ~when.set \/ when.val \notin {Str(<<"a", "u", "t", "o">>), Str(<<"n", "e", "v", "e", "r">>)}
    THEN [rc |-> 0, out |-> "always"]
    ELSE [rc |-> 0, out |-> IF when.val = Str(<<"a", "u", "t", "o">>) THEN "auto" ELSE "never"]

\* trycmd_parse_when(when, &color): the value returned and what color holds.
trycmd_parse_when(when, color) ==
    IF ~when.set THEN [rc |-> 0, out |-> "always"]
    ELSE IF when.val = Str(<<"a", "u", "t", "o">>) THEN [rc |-> 0, out |-> "auto"]
    ELSE IF when.val = Str(<<"a", "l", "w", "a", "y", "s">>) THEN [rc |-> 0, out |-> "always"]
    ELSE IF when.val = Str(<<"n", "e", "v", "e", "r">>) THEN [rc |-> 0, out |-> "never"]
    ELSE [rc |-> Failure, out |-> color]

shortopts == Str(<<"+", "i", "v", "h">>)

longopts ==
    << [name |-> Str(<<"i", "n", "t", "e", "r", "a", "c", "t", "i", "v", "e">>),
        has_arg |-> "no", val |-> Asc["i"]],
       [name |-> Str(<<"c", "o", "l", "o", "r">>), has_arg |-> "optional", val |-> Asc["C"]],
       [name |-> Str(<<"c", "o", "l", "o", "u", "r">>), has_arg |-> "optional",
        val |-> Asc["C"]],
       [name |-> Str(<<"v", "e", "r", "b", "o", "s", "e">>), has_arg |-> "no",
        val |-> Asc["v"]],
       [name |-> Str(<<"h", "e", "l", "p">>), has_arg |-> "no", val |-> Asc["h"]] >>

IsPrefix(p, s) == Len(p) <= Len(s) /\ SubSeq(s, 1, Len(p)) = p

\* The least of a set of indexes.
First(S) == CHOOSE k \in S : \A j \in S : k <= j

\* Whether the long options of the indexes S have the same has_arg and val.
Alike(S) ==
    \A j, k \in S : /\ longopts[j].has_arg = longopts[k].has_arg
                    /\ longopts[j].val = longopts[k].val

\* The long option of a name, given the options exact of that name and the
\* options pre it abbreviates: the one of that name, or else the one it
\* abbreviates when all it abbreviates are alike; 0 when there is none.
MatchOf(exact, pre) ==
    IF exact # {} THEN First(exact)
    ELSE IF pre # {} /\ Alike(pre) THEN First(pre)
    ELSE 0

LongMatch(name) ==
    MatchOf({k \in DOMAIN longopts : longopts[k].name = name},
            {k \in DOMAIN longopts : IsPrefix(name, longopts[k].name)})

\* One result of getopt_long.
Got(opt, optarg, oi, nc) ==
    [opt |-> opt, optarg |-> optarg, optind |-> oi, nextchar |-> nc, crashed |-> FALSE]

\* The long option k with a value, or none.
LongGot(k, value, oi) ==
    IF k = 0 \/ (value.set /\ longopts[k].has_arg = "no")
    THEN Got(Asc["?"], NullStr, oi + 1, <<>>)
    ELSE Got(longopts[k].val, value, oi + 1, <<>>)

\* The text after "--" with its '=' at eq, or 0: a name, and a value when
\* there is an '='.
LongSplit(text, eq, oi) ==
    IF eq = 0 THEN LongGot(LongMatch(text), NullStr, oi)
    ELSE LongGot(LongMatch(SubSeq(text, 1, eq - 1)),
                 StrPtr(SubSeq(text, eq + 1, Len(text))), oi)

LongOption(text, oi) == LongSplit(text, strchr(text, Asc["="]), oi)

\* The characters of an option string, without a leading '+'.
OptionChars(optstring) ==
    IF optstring # <<>> /\ optstring[1] = Asc["+"] THEN Tail(optstring) ELSE optstring

\* The next character of a group of short options. A leading '+' of the
\* option string is no option; it makes the scan stop at the first argument
\* that is no option.
ShortOption(nc, oi) ==
    Got(IF \E k \in 1..Len(OptionChars(shortopts)) : OptionChars(shortopts)[k] = nc[1]
        THEN nc[1] ELSE Asc["?"],
        NullStr, IF Len(nc) = 1 THEN oi + 1 ELSE oi, Tail(nc))

\* "--" is an argument like the others.
getopt_long_mut(av, oi, nc) ==
    IF oi >= Len(av) \/ Len(av[oi + 1]) < 2 \/ av[oi + 1][1] # Asc["-"]
       \/ av[oi + 1] = Str(<<"-", "-">>)
    THEN Got(EndOfOptions, NullStr, oi, nc)
    ELSE IF av[oi + 1][2] = Asc["-"]
    THEN LongOption(SubSeq(av[oi + 1], 3, Len(av[oi + 1])), oi)
    ELSE ShortOption(IF nc # <<>> THEN nc ELSE Tail(av[oi + 1]), oi)

\* An argument of the scan with nothing left of a group.
FreshOption(arg, oi) ==
    IF arg = Str(<<"-", "-">>) THEN Got(EndOfOptions, NullStr, oi + 1, <<>>)
    ELSE IF Len(arg) < 2 \/ arg[1] # Asc["-"] THEN Got(EndOfOptions, NullStr, oi, <<>>)
    ELSE IF arg[2] = Asc["-"] THEN LongOption(SubSeq(arg, 3, Len(arg)), oi)
    ELSE ShortOption(Tail(arg), oi)

\* getopt_long(argc, argv, shortopts, longopts, NULL) with optind = oi and
\* the characters nc left of a group of short options. av is argv, argv[0]
\* first. The '+' of shortopts makes the first argument that is no option
\* end the scan. With characters left over, argv[optind] is read unchecked.
getopt_long(av, oi, nc) ==
    IF nc # <<>>
    THEN IF oi >= Len(av)
         THEN [Got(Asc["?"], NullStr, oi, nc) EXCEPT !.crashed = TRUE]
         ELSE IF Len(av[oi + 1]) >= 2 /\ av[oi + 1][2] = Asc["-"]
         THEN LongOption(nc, oi)
         ELSE ShortOption(nc, oi)
    ELSE IF oi >= Len(av) THEN Got(EndOfOptions, NullStr, oi, nc)
    ELSE FreshOption(av[oi + 1], oi)

\* How the loop ends with the result g of getopt_long.
Left(rc, tmp, g) ==
    [rc |-> rc, tmp |-> tmp, optind |-> g.optind, nextchar |-> g.nextchar,
     crashed |-> g.crashed]

\* case 'C': the value of --color read into opts_out_tmp.opt_color.
RECURSIVE ReadLoop(_, _, _, _)
ReadColor(av, tmp, g, w) ==
    IF w.rc # 0 THEN Left(Failure, tmp, g)
    ELSE ReadLoop(av, [tmp EXCEPT !.opt_color = w.out], g.optind, g.nextchar)

\* The body of the loop for one result g of getopt_long: the switch.
ReadCase(av, tmp, g) ==
    IF g.crashed THEN Left(Failure, tmp, g)
    ELSE IF g.opt = EndOfOptions THEN Left(0, tmp, g)
    ELSE IF g.opt = Asc["C"] THEN ReadColor(av, tmp, g, trycmd_parse_when(g.optarg, tmp.opt_color))
    ELSE IF g.opt \in {Asc["i"], Asc["v"], Asc["h"]}
    THEN ReadLoop(av, [tmp EXCEPT !.opt_interactive = IF g.opt = Asc["i"] THEN 1 ELSE @,
                                  !.opt_verbose = IF g.opt = Asc["v"] THEN 1 ELSE @,
                                  !.opt_help = IF g.opt = Asc["h"] THEN 1 ELSE @],
                  g.optind, g.nextchar)
    ELSE Left(Failure, tmp, g)

\* The loop over the options: the value returned, opts_out_tmp, and what
\* getopt is left with.
ReadLoop(av, tmp, oi, nc) ==
    ReadCase(av, tmp, getopt_long(av, oi, nc))

\* The shell string of a call and the addresses of argv[1..] in the image
\* the caller holds them in.
ShellOf(e) == trycmd_getenv_s(e, "SHELL", StrPtr(DEF_SHELL_PATH)).val
ArgvAddrs(e, av) == SlotAddrs(Tail(av), PtrSize + SizeofStr(ShellOf(e))) \o <<NULL>>

\* opts_out_tmp after the environment was read.
EnvColor(when) == IF when.set THEN trycmd_parse_when(when, "never").out ELSE "never"

EnvOpts(e) ==
    [opt_interactive |-> Bool01(trycmd_getenv_i(e, "TRY_INTERACTIVE", 0)),
     opt_color       |-> EnvColor(trycmd_getenv_s(e, "TRY_COLOR", NullStr)),
     opt_shell       |-> PtrSize,
     opt_verbose     |-> 0,
     opt_help        |-> 0,
     opt_sub_argc    |-> 0,
     opt_sub_argv    |-> <<NULL>>]

\* The end of trycmd_read_options, r being how the loop ended and addrs the
\* addresses of argv[1..] and of its NULL.
ReadResult(av, old, r, addrs) ==
    [rc |-> r.rc, optind |-> r.optind, nextchar |-> r.nextchar, crashed |-> r.crashed,
     opts |-> IF r.rc # 0 THEN old
              ELSE [r.tmp EXCEPT !.opt_sub_argc = Len(av) - r.optind,
                                 !.opt_sub_argv = SubSeq(addrs, r.optind, Len(addrs))]]

\* trycmd_read_options(argc, argv, &opts_out) in environment e, with nc
\* what getopt kept from earlier calls (optind = 1 resets the index and not
\* the place in a group): the value returned, *opts_out given that it was
\* old, and what getopt is left with.
trycmd_read_options(e, av, old, nc) ==
    ReadResult(av, old, ReadLoop(av, EnvOpts(e), 1, nc), ArgvAddrs(e, av))

\* Nothing set.
NoEnv == [k \in {"TRY_INTERACTIVE", "SHELL", "TRY_COLOR"} |-> NullStr]

\* No call of the library functions below was made.
NoLibCalls ==
    /\ env = NoEnv
    /\ cmd_argv = <<>>
    /\ optind = 1
    /\ nextchar = <<>>
    /\ align_arg = [sz |-> ToSize(0), alignment |-> 1]
    /\ align_ret = ToSize(0)

---------------------------------------------------------------------------
(* trycmd_main and trycmd_run_subcommand, one step at a time.              *)

\* The runner has not started.
NoRunner ==
    /\ debug_enabled = FALSE
    /\ read_rc = 0
    /\ req_buflen = 0
    /\ child_pid = 0
    /\ wait_result = 0
    /\ result = 0
    /\ child = NoChild
    /\ others = <<>>
    /\ invoked = NotInvoked
    /\ trace = <<>>
    /\ run_result = 0
    /\ main_result = 0

\* The program about to enter trycmd_main's test of its options. When
\* trycmd_read_options failed, opts is whatever the stack held.
InitProgram(inputs, flags, helps, rcs, colors, debugs, nds, nothers) ==
    \E in \in inputs, i \in flags, v \in flags, h \in helps, rc \in rcs,
       col \in colors, dbg \in debugs, nd \in nds, n \in nothers :
        LET img == StringImage(in[1], in[2])
            o   == [OptsFor(in[1], in[2], i, v) EXCEPT !.opt_help = h, !.opt_color = col]
        IN  /\ opts = o
            /\ arena = [base |-> Len(img), size |-> ArenaSize(o, img)]
            /\ mem = img \o Repeat(FillByte, ArenaSize(o, img))
            /\ ndebug = nd
            /\ buf = [addr |-> NULL, len |-> 0]
            /\ argv = NULL
            /\ ret = 0
            /\ rets = {}
            /\ calls = 0
            /\ pc = "main"
            /\ debug_enabled = dbg
            /\ read_rc = rc
            /\ req_buflen = 0
            /\ child_pid = 0
            /\ wait_result = 0
            /\ result = 0
            /\ child = NoChild
            /\ others = [p \in 1..n |-> [state |-> "running", status |-> 0]]
            /\ invoked = NotInvoked
            /\ trace = <<>>
            /\ run_result = 0
            /\ main_result = 0
            /\ \E build \in Variants : StdStreams(build, FALSE)
            /\ NoLibCalls

\* A request for help is not looked at.
ShowUsage_mut(rc, o) == rc # 0 \/ o.opt_sub_argc = 0

\* trycmd_main up to the call of the runner: the usage message, or on.
ShowUsage(rc, o) == rc # 0 \/ o.opt_sub_argc = 0 \/ o.opt_help # 0

MainStart ==
    /\ pc = "main"
    /\ IF ShowUsage(read_rc, opts)
       THEN /\ trace' = Append(trace, "usage")
            /\ out' = fputs(out, UsageText)
            /\ main_result' = IF opts.opt_help # 0 THEN 0 ELSE 1
            /\ pc' = "done"
       ELSE /\ pc' = "run_size"
            /\ UNCHANGED <<trace, main_result, out>>
    /\ UNCHANGED <<lib_vars, variant, err, print_prefix, mem, opts, ndebug, arena, argv, builder_vars, debug_enabled, read_rc,
                   req_buflen, child_pid, wait_result, result, child, others, invoked,
                   run_result>>

\* The sizing call and the initialisation of result.
RunSize ==
    /\ pc = "run_size"
    /\ LET r == trycmd_make_shell_cmd(opts, mem, NULL, 0, NULL, ndebug)
       IN  /\ req_buflen' = r.ret
           /\ result' = 255
           /\ IF r.ret > 0
              THEN pc' = "run_build" /\ UNCHANGED run_result
              ELSE pc' = "show" /\ run_result' = 255
    /\ UNCHANGED <<lib_vars, io_vars, mem, opts, ndebug, arena, argv, builder_vars, debug_enabled, read_rc,
                   child_pid, wait_result, child, others, invoked, trace, main_result>>

\* The building call into dyn_buffer, and the assertions on its outcome.
RunBuild ==
    /\ pc = "run_build"
    /\ LET r  == trycmd_make_shell_cmd(opts, mem, arena.base, req_buflen, NULL, ndebug)
           ok == /\ req_buflen = r.ret
                 /\ r.argv # NULL
                 /\ ReadPtr(r.mem, r.argv) # NULL
       IN  /\ buf' = [addr |-> arena.base, len |-> req_buflen]
           /\ mem' = r.mem
           /\ argv' = r.argv
           /\ ret' = r.ret
           /\ pc' = IF r.aborted \/ (~ndebug /\ ~ok) THEN "aborted" ELSE "run_echo"
    /\ UNCHANGED <<opts, ndebug, arena, rets, calls, runner_vars, io_vars, lib_vars>>

\* The echo for verbose only.
EchoWanted_mut(o, dbg) == o.opt_verbose # 0

\* "Print the subcommand if requested."
EchoWanted(o, dbg) == o.opt_verbose # 0 \/ dbg

RunEcho ==
    /\ pc = "run_echo"
    /\ IF EchoWanted(opts, debug_enabled)
       THEN /\ trace' = Append(trace, "echo")
            /\ err' = fputs(err, trycmd_print_argv(variant, EchoPrefix,
                                    ReadVector(mem, argv, argc_required(opts) + 1))
                                  \o <<NL>>)
       ELSE UNCHANGED <<trace, err>>
    /\ pc' = "run_fork"
    /\ UNCHANGED <<lib_vars, variant, out, print_prefix, mem, opts, ndebug, arena, argv, builder_vars, debug_enabled, read_rc,
                   req_buflen, child_pid, wait_result, result, child, others, invoked,
                   run_result, main_result>>

\* fork(), in the parent: a child and its pid, or no child and -1.
RunFork(outcomes) ==
    /\ pc = "run_fork"
    /\ \E created \in outcomes :
          IF created
          THEN /\ child' = [NoChild EXCEPT !.state = "forked"]
               /\ child_pid' = ChildPid
               /\ trace' = Append(trace, "fork")
          ELSE /\ child_pid' = ForkFailed
               /\ UNCHANGED <<child, trace>>
    /\ pc' = "run_wait"
    /\ UNCHANGED <<lib_vars, io_vars, mem, opts, ndebug, arena, argv, builder_vars, debug_enabled, read_rc,
                   req_buflen, wait_result, result, others, invoked, run_result,
                   main_result>>

\* The child: execv(argv[0], argv) starts the shell, or returns and the
\* child aborts.
ChildExec(outcomes) ==
    /\ child.state = "forked"
    /\ \E started \in outcomes :
          IF started
          THEN /\ child' = [child EXCEPT !.state = "shell", !.exec = "ok"]
               /\ invoked' = ShellRun(ReadVector(mem, argv, argc_required(opts)))
               /\ UNCHANGED trace
          ELSE /\ \E core \in {0, 1} :
                     child' = [state |-> "zombie", status |-> SigStatus(SIGABRT, core),
                               exec |-> "failed"]
               /\ trace' = Append(trace, "exit")
               /\ UNCHANGED invoked
    /\ UNCHANGED <<lib_vars, io_vars, mem, opts, ndebug, arena, pc, argv, builder_vars, debug_enabled,
                   read_rc, req_buflen, child_pid, wait_result, result, others,
                   run_result, main_result>>

\* The shell, having run the script, ends.
ChildTerminate ==
    /\ child.state = "shell"
    /\ \E st \in ChildStatuses :
          child' = [child EXCEPT !.state = "zombie", !.status = st]
    /\ trace' = Append(trace, "exit")
    /\ UNCHANGED <<lib_vars, io_vars, mem, opts, ndebug, arena, pc, argv, builder_vars, debug_enabled,
                   read_rc, req_buflen, child_pid, wait_result, result, others, invoked,
                   run_result, main_result>>

\* Another child of the caller ends.
OtherTerminate ==
    /\ \E p \in DOMAIN others, st \in OtherStatuses :
          /\ others[p].state = "running"
          /\ others' = [others EXCEPT ![p] = [state |-> "zombie", status |-> st]]
    /\ UNCHANGED <<lib_vars, io_vars, mem, opts, ndebug, arena, pc, argv, builder_vars, debug_enabled,
                   read_rc, req_buflen, child_pid, wait_result, result, child, invoked,
                   trace, run_result, main_result>>

\* A wait that never returns.
WaitOutcomes_mut(pid) == {}

\* What waitpid(pid, &status, 0) can return now: with a pid above 0 the
\* status of that child once it has ended; with pid -1 the status of any
\* child that has ended, or failure when the caller has no child. who is
\* the reaped child: 0 for the one forked here, p for the p-th other, -1 for
\* none. An empty set is a wait that blocks.
WaitOutcomes(pid) ==
    IF pid > 0
    THEN IF child.state = "zombie"
         THEN {[pid |-> pid, status |-> child.status, who |-> 0]}
         ELSE {}
    ELSE IF \A p \in DOMAIN others : others[p].state = "reaped"
    THEN {[pid |-> WaitFailed, status |-> result, who |-> 0 - 1]}
    ELSE {[pid |-> OtherPid(p), status |-> others[p].status, who |-> p] :
             p \in {q \in DOMAIN others : others[q].state = "zombie"}}

\* wait_result = waitpid(child_pid, &result, 0), and the assertion on it.
RunWait ==
    /\ pc = "run_wait"
    /\ \E w \in WaitOutcomes(child_pid) :
          /\ wait_result' = w.pid
          /\ result' = w.status
          /\ child' = IF w.who = 0 THEN [child EXCEPT !.state = "reaped"] ELSE child
          /\ others' = IF w.who > 0 THEN [others EXCEPT ![w.who].state = "reaped"]
                       ELSE others
          /\ pc' = IF ~ndebug /\ w.pid # child_pid THEN "aborted" ELSE "run_classify"
    /\ UNCHANGED <<lib_vars, io_vars, mem, opts, ndebug, arena, argv, builder_vars, debug_enabled, read_rc,
                   req_buflen, child_pid, invoked, trace, run_result, main_result>>

\* The conversion of the status, and the return.
RunClassify ==
    /\ pc = "run_classify"
    /\ result' = ClassifyStatus(result)
    /\ run_result' = ClassifyStatus(result)
    /\ pc' = "show"
    /\ UNCHANGED <<lib_vars, io_vars, mem, opts, ndebug, arena, argv, builder_vars, debug_enabled, read_rc,
                   req_buflen, child_pid, wait_result, child, others, invoked, trace,
                   main_result>>

\* EXIT_SUCCESS or EXIT_FAILURE.
ShowReturn_mut(o, exit_status) == IF exit_status = 0 THEN 0 ELSE 1

\* What trycmd_show_exit_status returns.
ShowReturn(o, exit_status) == exit_status

\* trycmd_main after the runner: the banner, and the return.
MainShow ==
    /\ pc = "show"
    /\ trace' = Append(trace, "banner")
    /\ out' = fputs(out, BannerText(variant, opts, mem, run_result))
    /\ main_result' = ShowReturn(opts, run_result)
    /\ pc' = "done"
    /\ UNCHANGED <<lib_vars, variant, err, print_prefix, mem, opts, ndebug, arena, argv, builder_vars, debug_enabled, read_rc,
                   req_buflen, child_pid, wait_result, result, child, others, invoked,
                   run_result>>

---------------------------------------------------------------------------
(* An API client of the builder, as test_trycmd_make_shell_cmd: it fills   *)
(* its storage with FillByte, calls the builder with a buffer inside it,   *)
(* and looks at the result.                                                *)

InitClient(inputs) ==
    \E in \in inputs, i \in {0, 1}, nd \in BOOLEAN :
        LET img == StringImage(in[1], in[2])
            o   == OptsFor(in[1], in[2], i, 0)
        IN  /\ opts = o
            /\ arena = [base |-> Len(img), size |-> ArenaSize(o, img)]
            /\ mem = img \o Repeat(FillByte, ArenaSize(o, img))
            /\ ndebug = nd
            /\ buf = [addr |-> NULL, len |-> 0]
            /\ argv = NULL
            /\ ret = 0
            /\ rets = {}
            /\ calls = 0
            /\ pc = "api"
            /\ NoRunner
            /\ StdStreams("util", FALSE)
            /\ NoLibCalls

InitBuild == InitClient(BuildInputs)

InitLong == InitClient(LongInputs)

\* memset(buffer, 0xef, sizeof(buffer))
Memset(m, ar) == Write(m, ar.base, Repeat(FillByte, ar.size))

\* Buffer lengths: none, one byte short, exact, and with room to spare.
BufLens(req) == {0, req - 1, req, req + PtrSize}

Returned(r) ==
    /\ mem' = r.mem
    /\ argv' = r.argv
    /\ ret' = r.ret
    /\ rets' = IF r.aborted THEN rets ELSE rets \cup {r.ret}
    /\ calls' = calls + 1
    /\ pc' = IF r.aborted THEN "aborted" ELSE "api"
    /\ UNCHANGED <<opts, ndebug, arena, runner_vars, io_vars, lib_vars>>

\* trycmd_make_shell_cmd(&opts, NULL, 0, NULL): the sizing call.
ClientSize ==
    /\ pc = "api"
    /\ calls < MaxCalls
    /\ buf' = [addr |-> NULL, len |-> 0]
    /\ Returned(trycmd_make_shell_cmd(opts, Memset(mem, arena), NULL, 0, NULL, ndebug))

\* trycmd_make_shell_cmd(&opts, buffer + off, len, &argv)
ClientCall(offsets) ==
    /\ pc = "api"
    /\ calls < MaxCalls
    /\ \E off \in offsets, len \in BufLens(required_buflen(opts, mem)) :
          /\ buf' = [addr |-> arena.base + off, len |-> len]
          /\ Returned(trycmd_make_shell_cmd(opts, Memset(mem, arena), arena.base + off,
                                            len, NULL, ndebug))

NextBuild == ClientSize \/ ClientCall(0..(PtrSize - 1))

NextLong == ClientSize \/ ClientCall({0, 1})

SpecBuild == InitBuild /\ [][NextBuild]_vars

SpecLong == InitLong /\ [][NextLong]_vars

---------------------------------------------------------------------------
(* Properties of the builder.                                              *)

\* The last call was given a buffer and enough room, and returned.
Built == calls > 0 /\ pc = "api" /\ buf.addr # NULL /\ buf.len >= ret

ShellStr == CStr(mem, opts.opt_shell)
SubStr(k) == CStr(mem, opts.opt_sub_argv[k])
SubStrs == [k \in 1..opts.opt_sub_argc |-> SubStr(k)]

ArenaAddrs == arena.base..(arena.base + arena.size - 1)

\* The size test_trycmd_make_shell_cmd expects: the pointer table, then the
\* words "shell [-i] -c -- name "$@" " each followed by one byte, and one more.
RoundUp(n, k) == ((n + k - 1) \div k) * k
TestSize ==
    RoundUp(PtrSize * (5 + Bool01(opts.opt_interactive) + opts.opt_sub_argc)
            + (Len(ShellStr) + 1)
            + (IF opts.opt_interactive # 0 THEN Len(shell_opt_interactive) + 1 ELSE 0)
            + (Len(shell_opt_command) + 1) + (Len(shell_opts_end) + 1)
            + (Len(SubStr(1)) + 1 + Len(shell_arg0_ext) + 1)
            + 1, PtrSize)

\* C6: after a successful build the vector is [shell, "-i" only if
\* interactive (at index 1), "-c", "--", script, sub_argv[0..argc-1], NULL]
\* with script = sub_argv[0], one space, and "$@" in double quotes; it has
\* 5 + (interactive ? 1 : 0) + argc entries counting the final NULL.
C6_Vector ==
    Built =>
        LET n == 5 + Bool01(opts.opt_interactive) + opts.opt_sub_argc
        IN  /\ ReadVector(mem, argv, n)
               = <<ShellStr>>
                 \o (IF opts.opt_interactive # 0 THEN <<Str(<<"-", "i">>)>> ELSE <<>>)
                 \o <<Str(<<"-", "c">>), Str(<<"-", "-">>),
                      SubStr(1) \o Str(<<" ", "\"", "$", "@", "\"">>)>>
                 \o SubStrs
            /\ ReadPtr(mem, argv + PtrSize * (n - 1)) = NULL

\* C9: a call with a buffer of exactly the required size, at any address,
\* builds the vector and stores nothing outside [buffer, buffer + size).
C9_NoWriteOutside ==
    (calls > 0 /\ buf.addr # NULL /\ buf.len = required_buflen(opts, mem)) =>
        /\ pc = "api"
        /\ \A a \in ArenaAddrs :
              (a < buf.addr \/ a >= buf.addr + buf.len) => Rd(mem, a) = FillByte

\* C10: a call with less room than required stores nothing in the buffer and
\* nothing in *argv_out and returns the required size; every call, whatever
\* its buffer and length, returns that same size.
C10_TooSmall ==
    /\ (calls > 0 /\ buf.len < TestSize) =>
          /\ \A a \in ArenaAddrs : Rd(mem, a) = FillByte
          /\ argv = NULL
          /\ ret = TestSize
    /\ rets \subseteq {TestSize}

C10_Witness ==
    /\ calls = MaxCalls
    /\ buf.addr # NULL
    /\ buf.len > 0
    /\ buf.len < ret
    /\ rets = {ret}

\* [a, a + n) lies in the buffer of the last call.
InBuffer(a, n) == buf.addr <= a /\ a + n <= buf.addr + buf.len

\* C11: after a successful build the pointer table and every string a
\* non-NULL entry of the returned vector points to lie inside
\* [buffer, buffer + buflen).
C11_InsideBuffer ==
    (Built /\ argv # NULL) =>
        /\ InBuffer(argv, PtrSize * argc_required(opts))
        /\ \A k \in 0..(argc_required(opts) - 1) :
              LET p == ReadPtr(mem, argv + PtrSize * k)
              IN  p # NULL => InBuffer(p, Len(CStr(mem, p)) + 1)

---------------------------------------------------------------------------
(* The whole program: trycmd_main from its test of the options to return.  *)

Colors == {"never", "always", "auto"}

MainInputs ==
    {<<Str(<<"/">>), subs>> : subs \in {<<>>, <<Str(<<"a">>)>>, <<Str(<<"a">>), Str(<<"b">>)>>}}

InitMain ==
    InitProgram(MainInputs, {0, 1}, {0, 1}, {0, 0 - 1}, Colors, BOOLEAN, BOOLEAN,
                0..MaxOthers)

Next ==
    \/ MainStart
    \/ RunSize
    \/ RunBuild
    \/ RunEcho
    \/ RunFork(BOOLEAN)
    \/ ChildExec(BOOLEAN)
    \/ ChildTerminate
    \/ OtherTerminate
    \/ RunWait
    \/ RunClassify
    \/ MainShow

Spec == InitMain /\ [][Next]_vars

(* The program up to the shell's start, for program names of every shape.  *)

NameChars == {Asc["a"], Asc[" "], Asc[";"], Asc["'"]}
ShellNames == StringsOver(NameChars, 1, MaxStrLen)
ShellInputs == {<<Str(<<"/">>), <<n>> \o as>> : n \in ShellNames, as \in ArgLists}

InitShell ==
    InitProgram(ShellInputs, {0, 1}, {0}, {0}, {"never"}, {FALSE}, BOOLEAN, {0})

NextShell ==
    \/ MainStart
    \/ RunSize
    \/ RunBuild
    \/ RunEcho
    \/ RunFork({TRUE})
    \/ ChildExec({TRUE})

SpecShell == InitShell /\ [][NextShell]_vars

(* The runner from the return of waitpid, for every status of the child.   *)

InitStatus ==
    \E st \in WaitStatuses :
        LET shell == Str(<<"/">>)
            subs  == <<Str(<<"a">>)>>
            img   == StringImage(shell, subs)
            o     == OptsFor(shell, subs, 0, 0)
            size  == required_buflen(o, img)
            r     == trycmd_make_shell_cmd(o, img \o Repeat(FillByte, ArenaSize(o, img)),
                                           Len(img), size, NULL, FALSE)
        IN  /\ opts = o
            /\ arena = [base |-> Len(img), size |-> ArenaSize(o, img)]
            /\ mem = r.mem
            /\ ndebug = FALSE
            /\ buf = [addr |-> Len(img), len |-> size]
            /\ argv = r.argv
            /\ ret = r.ret
            /\ rets = {}
            /\ calls = 0
            /\ pc = "run_classify"
            /\ debug_enabled = FALSE
            /\ read_rc = 0
            /\ req_buflen = size
            /\ child_pid = ChildPid
            /\ wait_result = ChildPid
            /\ result = st
            /\ child = [state |-> "reaped", status |-> st, exec |-> "ok"]
            /\ others = <<>>
            /\ invoked = ShellRun(ReadVector(r.mem, r.argv, argc_required(o)))
            /\ trace = <<"fork", "exit">>
            /\ run_result = 0
            /\ main_result = 0
            /\ \E v \in Variants : StdStreams(v, FALSE)
            /\ NoLibCalls

NextStatus == RunClassify \/ MainShow

SpecStatus == InitStatus /\ [][NextStatus]_vars

---------------------------------------------------------------------------
(* Properties of the runner and of trycmd_main.                            *)

Count(ev) == Cardinality({k \in DOMAIN trace : trace[k] = ev})

\* The program went on to the runner instead of printing the usage message.
SubcommandRun == read_rc = 0 /\ opts.opt_sub_argc > 0 /\ opts.opt_help = 0

\* C1: the runner maps the wait status of the child to its result: exited
\* with code c gives c, killed by signal s gives 128 + s, any other status
\* gives 255; the result is always in 0..255.
C1_StatusMap ==
    pc \in {"show", "done"} =>
        /\ run_result \in 0..255
        /\ \A c \in 0..255 : child.status = c * 256 => run_result = c
        /\ \A s \in 1..MaxSignal, core \in {0, 128} :
              child.status = s + core => run_result = 128 + s
        /\ (/\ child.status \notin {c * 256 : c \in 0..255}
            /\ child.status \notin {s + core : s \in 1..MaxSignal, core \in {0, 128}})
           => run_result = 255

C1_Witness ==
    /\ pc = "done"
    /\ child.status = SIGSEGV + 128
    /\ run_result = 139

\* C2: whenever a subcommand is run, trycmd_main returns exactly the value
\* trycmd_run_subcommand returned, for every status and every color mode.
C2_MainReturnsRunner ==
    (pc = "done" /\ SubcommandRun) => main_result = run_result

C2_Witness ==
    /\ pc = "done"
    /\ SubcommandRun
    /\ opts.opt_color = "always"
    /\ run_result = 139
    /\ main_result = 139

\* C3: when fork fails, or execv of the shell fails in the child, the
\* runner returns 127.
C3_Returns127 ==
    (pc \in {"show", "done"} /\ (child_pid = ForkFailed \/ child.exec = "failed"))
        => run_result = 127

\* C4: the wait reaps only the child created by this call of the runner,
\* never another child of the caller, also when fork returned -1; and the
\* status that is classified is the status of that child.
C4_ReapsOwnChild ==
    /\ \A p \in DOMAIN others : others[p].state # "reaped"
    /\ (pc = "run_classify" /\ child_pid = ChildPid) =>
          (child.state = "reaped" /\ result = child.status)

---------------------------------------------------------------------------
(* Properties of the command the shell runs.                               *)

\* A name without characters the shell treats specially.
PlainName(n) ==
    \A k \in DOMAIN n : n[k] \notin {Asc[" "], Asc[";"], Asc["'"], Asc["\""], Asc["$"]}

\* sub_argv[1..argc-1]
SubArgs == SubSeq(SubStrs, 2, Len(SubStrs))

---------------------------------------------------------------------------
(* A client of the printers, as test_trycmd_pretty_print_arg and           *)
(* test_trycmd_print_argv: it opens a stream, prints one argument or one   *)
(* argument list into it, and reads the text back.                         *)

MaxArgLen == 3
MaxArgs == 2

\* Characters that need no quotes, and characters that do.
PrintChars == {Asc["a"], Asc["0"], Asc["_"], Asc["-"], Asc["."], Asc["/"],
               Asc["'"], Asc[" "], Asc["\\"], Asc["*"]}

RECURSIVE ListsOver(_, _)
ListsOver(ss, n) ==
    IF n = 0 THEN {<<>>}
    ELSE ListsOver(ss, n - 1)
         \cup {Append(l, s) : l \in {x \in ListsOver(ss, n - 1) : Len(x) = n - 1}, s \in ss}

\* One argument of up to MaxArgLen characters, or up to MaxArgs arguments of
\* at most one character.
PrintLists ==
    {<<s>> : s \in StringsOver(PrintChars, 0, MaxArgLen)}
    \cup ListsOver(StringsOver(PrintChars, 0, 1), MaxArgs)

Prefixes == {<<>>, EchoPrefix}

InitPrint ==
    \E args \in PrintLists, build \in Variants, pre \in Prefixes :
        LET shell == Str(<<"/">>)
            img   == StringImage(shell, args)
        IN  /\ opts = OptsFor(shell, args, 0, 0)
            /\ arena = [base |-> Len(img), size |-> 0]
            /\ mem = img
            /\ ndebug = FALSE
            /\ buf = [addr |-> NULL, len |-> 0]
            /\ argv = NULL
            /\ ret = 0
            /\ rets = {}
            /\ calls = 0
            /\ pc = "print"
            /\ NoRunner
            /\ variant = build
            /\ out = Stream(NoFd, FALSE)
            /\ err = Stream(2, FALSE)
            /\ print_prefix = pre
            /\ NoLibCalls

\* trycmd_pretty_print_arg(argv[0], fout)
PrintArg ==
    /\ pc = "print"
    /\ opts.opt_sub_argc > 0
    /\ out' = fputs(out, trycmd_pretty_print_arg(variant, CStr(mem, opts.opt_sub_argv[1])))
    /\ pc' = "printed_arg"
    /\ UNCHANGED <<lib_vars, variant, err, print_prefix, mem, opts, ndebug, arena, argv, builder_vars,
                   runner_vars>>

\* trycmd_print_argv(prefix, argv, fout)
PrintArgv ==
    /\ pc = "print"
    /\ out' = fputs(out, trycmd_print_argv(variant, print_prefix,
                                           ArgvStrings(mem, opts.opt_sub_argv)))
    /\ pc' = "printed_argv"
    /\ UNCHANGED <<lib_vars, variant, err, print_prefix, mem, opts, ndebug, arena, argv, builder_vars,
                   runner_vars>>

NextPrint == PrintArg \/ PrintArgv

SpecPrint == InitPrint /\ [][NextPrint]_vars

---------------------------------------------------------------------------
(* Properties of the printers.                                             *)

\* The characters [0-9a-zA-Z_.-/].
Allowed(c) == isalnum(c) \/ c \in {Asc["_"], Asc["."], Asc["-"], Asc["/"]}

\* C12: for every argument with at least one character outside
\* [0-9a-zA-Z_.-/], the text trycmd_pretty_print_arg prints, read as a
\* shell word, is the argument itself; also with single quotes leading,
\* trailing or adjacent.
C12_RoundTrip ==
    (pc = "printed_arg" /\ \E k \in 1..Len(SubStr(1)) : ~Allowed(SubStr(1)[k])) =>
        ShellWords(out.text) = [error |-> FALSE, words |-> <<SubStr(1)>>]

C12_Witness ==
    /\ pc = "printed_arg"
    /\ SubStr(1) = Str(<<"'", "'", "a">>)
    /\ ShellWords(out.text).words = <<SubStr(1)>>

\* C13: an argument whose characters are all alphanumeric or one of '_',
\* '-', '.', '/' has trycmd_needs_quoting return 0 for each character and
\* is printed unchanged, without quotes.
C13_Unchanged ==
    (pc = "printed_arg" /\ \A k \in 1..Len(SubStr(1)) : Allowed(SubStr(1)[k])) =>
        /\ \A k \in 1..Len(SubStr(1)) : trycmd_needs_quoting(variant, SubStr(1)[k]) = 0
        /\ out.text = SubStr(1)

\* Each single quote as the four characters '\''.
RECURSIVE EscapeQuotes(_)
EscapeQuotes(s) ==
    IF s = <<>> THEN <<>>
    ELSE (IF s[1] = QUOTE THEN <<QUOTE, BACKSLASH, QUOTE, QUOTE>> ELSE <<s[1]>>)
         \o EscapeQuotes(Tail(s))

\* Character by character: a quote opens before the first character of a
\* run of characters other than quotes and closes after its last; a single
\* quote is printed as \' outside quotes.
RECURSIVE ByRuns(_, _)
ByRuns(s, in) ==
    IF s = <<>> THEN IF in THEN <<QUOTE>> ELSE <<>>
    ELSE IF s[1] = QUOTE
    THEN (IF in THEN <<QUOTE>> ELSE <<>>) \o <<BACKSLASH, QUOTE>> \o ByRuns(Tail(s), FALSE)
    ELSE (IF in THEN <<>> ELSE <<QUOTE>>) \o <<s[1]>> \o ByRuns(Tail(s), TRUE)

\* The argument printed has a character that needs quoting.
NeedsQuotes == \E k \in 1..Len(SubStr(1)) : trycmd_needs_quoting(variant, SubStr(1)[k]) # 0

\* No single quote is first, last, or next to another.
QuotesInside(s) ==
    /\ s[1] # QUOTE
    /\ s[Len(s)] # QUOTE
    /\ \A k \in 1..(Len(s) - 1) : ~(s[k] = QUOTE /\ s[k + 1] = QUOTE)

\* C14 as stated: an argument with a character that needs quoting is
\* printed as one single quote, the argument with each single quote
\* replaced by the four characters '\'', and one closing single quote.
C14_Exact ==
    (pc = "printed_arg" /\ NeedsQuotes) =>
        out.text = <<QUOTE>> \o EscapeQuotes(SubStr(1)) \o <<QUOTE>>

\* C14: an argument with a character that needs quoting is printed run by
\* run: each run of characters other than single quotes within single
\* quotes, each single quote as \'; this is the stated form when no single
\* quote is first, last, or next to another.
C14_ByRuns ==
    (pc = "printed_arg" /\ NeedsQuotes) =>
        /\ out.text = ByRuns(SubStr(1), FALSE)
        /\ QuotesInside(SubStr(1)) =>
              out.text = <<QUOTE>> \o EscapeQuotes(SubStr(1)) \o <<QUOTE>>

C14_Witness ==
    /\ pc = "printed_arg"
    /\ SubStr(1) = Str(<<"a", "'", "a">>)
    /\ out.text = Str(<<"'", "a", "'", "\\", "'", "'", "a", "'">>)

\* The text printed after the prefix.
AfterPrefix == SubSeq(out.text, Len(print_prefix) + 1, Len(out.text))

\* C15: the text trycmd_print_argv prints after the prefix, split into
\* words by a shell, is the argument list: as many words, each equal to its
\* argument, empty arguments included.
C15_ListRoundTrip ==
    pc = "printed_argv" =>
        ShellWords(AfterPrefix) = [error |-> FALSE, words |-> SubStrs]

\* Each argument pretty-printed after one space.
RECURSIVE SpacedArgs(_)
SpacedArgs(args) ==
    IF args = <<>> THEN <<>>
    ELSE <<Asc[" "]>> \o trycmd_pretty_print_arg(variant, Head(args))
         \o SpacedArgs(Tail(args))

\* C16: trycmd_print_argv prints the prefix, each argument pretty-printed
\* after one space, in order, and one final newline.
C16_Format ==
    pc = "printed_argv" => out.text = print_prefix \o SpacedArgs(SubStrs) \o <<NL>>

---------------------------------------------------------------------------
(* A client of the banner and of the colour test, as                       *)
(* test_trycmd_show_exit_status and test_trycmd_is_color_enabled: options  *)
(* with a colour mode and a subcommand, and a stream in memory or on a     *)
(* descriptor that is or is not a terminal.                                *)

BannerLists == {<<>>, <<Str(<<"a">>)>>, <<Str(<<"a">>), Str(<<"a", " ", "a">>)>>}

ExitStatuses == {0, 1, 2, 127, 139, 255}

Streams == {Stream(NoFd, FALSE), Stream(1, FALSE), Stream(1, TRUE)}

\* The subcommand list is the first opt_sub_argc pointers of opt_sub_argv;
\* the vector may go on after them, up to a NULL.
InitBanner ==
    \E args \in BannerLists, build \in Variants, col \in Colors, os \in Streams :
      \E argc \in 0..Len(args) :
        LET shell == Str(<<"/">>)
            img   == StringImage(shell, args)
        IN  /\ opts = [OptsFor(shell, args, 0, 0) EXCEPT !.opt_color = col,
                                                         !.opt_sub_argc = argc]
            /\ arena = [base |-> Len(img), size |-> 0]
            /\ mem = img
            /\ ndebug = FALSE
            /\ buf = [addr |-> NULL, len |-> 0]
            /\ argv = NULL
            /\ ret = 0
            /\ rets = {}
            /\ calls = 0
            /\ pc = "banner"
            /\ NoRunner
            /\ variant = build
            /\ out = os
            /\ err = Stream(2, FALSE)
            /\ print_prefix = <<>>
            /\ NoLibCalls

\* trycmd_show_exit_status(&opts, exit_status, os)
ShowExitStatus ==
    /\ pc = "banner"
    /\ \E exit_status \in ExitStatuses :
          /\ out' = fputs(out, BannerText(variant, opts, mem, exit_status))
          /\ ret' = ShowReturn(opts, exit_status)
    /\ pc' = "shown"
    /\ UNCHANGED <<lib_vars, variant, err, print_prefix, mem, opts, ndebug, arena, argv, buf, rets,
                   calls, runner_vars>>

\* trycmd_is_color_enabled(opts.opt_color, os)
IsColorEnabled ==
    /\ pc = "banner"
    /\ ret' = trycmd_is_color_enabled(opts.opt_color, out)
    /\ pc' = "color_queried"
    /\ UNCHANGED <<lib_vars, io_vars, mem, opts, ndebug, arena, argv, buf, rets, calls, runner_vars>>

NextBanner == ShowExitStatus \/ IsColorEnabled

SpecBanner == InitBanner /\ [][NextBanner]_vars

---------------------------------------------------------------------------
(* Properties of the banner and of the colour test.                        *)

\* The text has seq in it.
Contains(text, seq) ==
    \E i \in 1..(Len(text) - Len(seq) + 1) : SubSeq(text, i, i + Len(seq) - 1) = seq

\* C17: with colour disabled the banner is three lines: the divider; the
\* label "Success:" for status 0 and "Failed (status=N):" otherwise, then
\* the subcommand, each argument pretty-printed after one space; and the
\* divider again, with no blank line.
C17_ThreeLines ==
    (pc = "shown" /\ trycmd_is_color_enabled(opts.opt_color, out) = 0) =>
        out.text = divider_line \o <<NL>>
                   \o (IF ret = 0
                       THEN Str(<<"S", "u", "c", "c", "e", "s", "s", ":">>)
                       ELSE Str(<<"F", "a", "i", "l", "e", "d", " ", "(",
                                  "s", "t", "a", "t", "u", "s", "=">>)
                            \o Decimal(ret) \o Str(<<")", ":">>))
                   \o SpacedArgs(SubStrs) \o <<NL>>
                   \o divider_line \o <<NL>>

\* C18: the banner has the colour sequences (green for success, red for
\* failure, and the reset) exactly when trycmd_is_color_enabled says colour
\* is on for the stream, and no escape character at all when it is off.
C18_EscapesIffColor ==
    pc = "shown" =>
        IF trycmd_is_color_enabled(opts.opt_color, out) # 0
        THEN /\ Contains(out.text, IF ret = 0 THEN Green ELSE Red)
             /\ Contains(out.text, Reset)
        ELSE \A k \in 1..Len(out.text) : out.text[k] # ESC

\* C19: trycmd_is_color_enabled returns 0 for never and 1 for always on
\* every stream, and for auto a value other than 0 exactly when the stream
\* is on a terminal; a stream without a descriptor is not on a terminal.
C19_ColorModes ==
    pc = "color_queried" =>
        /\ opts.opt_color = "never" => ret = 0
        /\ opts.opt_color = "always" => ret = 1
        /\ opts.opt_color = "auto" => (ret # 0 <=> (out.fd # NoFd /\ out.tty))

C19_Witness ==
    /\ pc = "color_queried"
    /\ opts.opt_color = "auto"
    /\ out.fd # NoFd
    /\ out.tty
    /\ ret # 0

---------------------------------------------------------------------------
(* Properties of trycmd_main when help is requested.                       *)

\* C20: when the options were read and help is requested, trycmd_main
\* prints the usage text, creates no child even with a subcommand on the
\* command line, and returns 0.
C20_HelpNoChild ==
    (read_rc = 0 /\ opts.opt_help # 0) =>
        /\ pc \in {"main", "done"}
        /\ child = NoChild
        /\ Count("fork") = 0
        /\ pc = "done" =>
              /\ trace = <<"usage">>
              /\ out.text = UsageText
              /\ main_result = 0

C20_Witness ==
    /\ pc = "done"
    /\ read_rc = 0
    /\ opts.opt_help # 0
    /\ opts.opt_sub_argc > 0
    /\ out.text = UsageText
    /\ main_result = 0

---------------------------------------------------------------------------
(* A client of trycmd_read_options, as test_trycmd_read_options: it sets   *)
(* the environment, lays out an argv and calls the parser, once or several *)
(* times in a row.                                                         *)

MaxArgc == 3
MaxReads == 2

ProgName == Str(<<"t", "r", "y">>)

ColorOpt   == Str(<<"-", "-", "c", "o", "l", "o", "r">>)
ColourOpt  == Str(<<"-", "-", "c", "o", "l", "o", "u", "r">>)
WhenAuto   == Str(<<"a", "u", "t", "o">>)
WhenAlways == Str(<<"a", "l", "w", "a", "y", "s">>)
WhenNever  == Str(<<"n", "e", "v", "e", "r">>)

\* Strings that are no WHEN: another word, another case, a blank after, a
\* part of a WHEN, and the empty string.
BadWhens == {Str(<<"b">>), Str(<<"A", "u", "t", "o">>), Str(<<"a", "u", "t", "o", " ">>),
             Str(<<"a", "u", "t">>), <<>>}

\* Arguments: a command, options of try, "--", and options try has not.
OptTokens ==
    {Str(<<"a">>), Str(<<"-", "i">>), Str(<<"-", "v">>), Str(<<"-", "h">>),
     Str(<<"-", "-">>), Str(<<"-", "x">>), ColorOpt,
     ColorOpt \o Str(<<"=">>) \o WhenAuto,
     ColourOpt \o Str(<<"=">>) \o WhenNever,
     ColorOpt \o Str(<<"=">>) \o Str(<<"b">>),
     Str(<<"-", "-", "i", "n", "t", "e", "r", "a", "c", "t", "i", "v", "e">>)}

CmdLines == {<<ProgName>> \o l : l \in ListsOver(OptTokens, MaxArgc)}

\* Arguments for calls in a row: groups of short options with one try has
\* not, before and after ones it has.
CallTokens == {Str(<<"a">>), Str(<<"-", "i">>), Str(<<"-", "x", "i">>), Str(<<"-", "i", "x">>)}

CallLines == {<<ProgName>> \o l : l \in ListsOver(CallTokens, MaxReads)}

Envs ==
    {NoEnv,
     [NoEnv EXCEPT !["TRY_INTERACTIVE"] = StrPtr(Str(<<"1">>))],
     [NoEnv EXCEPT !["TRY_INTERACTIVE"] = StrPtr(Str(<<"1", "a">>)),
                   !["TRY_COLOR"] = StrPtr(WhenAlways)],
     [NoEnv EXCEPT !["TRY_INTERACTIVE"] = StrPtr(Str(<<"0">>)),
                   !["TRY_COLOR"] = StrPtr(Str(<<"b">>))],
     [NoEnv EXCEPT !["TRY_INTERACTIVE"] = StrPtr(Str(<<"a">>)),
                   !["SHELL"] = StrPtr(Str(<<"/">>)),
                   !["TRY_COLOR"] = StrPtr(WhenAuto)],
     [NoEnv EXCEPT !["SHELL"] = StrPtr(<<>>), !["TRY_COLOR"] = StrPtr(<<>>)]}

\* What *opts_out holds before the first call.
StaleOpts ==
    [opt_interactive |-> 1, opt_color |-> "auto", opt_shell |-> NULL, opt_verbose |-> 1,
     opt_help |-> 1, opt_sub_argc |-> 0, opt_sub_argv |-> <<NULL>>]

InitOpts ==
    \E e \in Envs :
        /\ env = e
        /\ cmd_argv = <<>>
        /\ optind = 1
        /\ nextchar = <<>>
        /\ align_arg = [sz |-> ToSize(0), alignment |-> 1]
        /\ align_ret = ToSize(0)
        /\ opts = StaleOpts
        /\ mem = NullPage
        /\ arena = [base |-> Len(NullPage), size |-> 0]
        /\ ndebug = FALSE
        /\ buf = [addr |-> NULL, len |-> 0]
        /\ argv = NULL
        /\ ret = 0
        /\ rets = {}
        /\ calls = 0
        /\ pc = "opts"
        /\ NoRunner
        /\ StdStreams("util", FALSE)

\* trycmd_read_options(argc, argv, &opts) with an argv of lines; at most
\* max calls.
ReadOptions(lines, max) ==
    /\ pc = "opts"
    /\ calls < max
    /\ \E av \in lines :
          \E r \in {trycmd_read_options(env, av, opts, nextchar)} :
              /\ cmd_argv' = av
              /\ mem' = StringImage(ShellOf(env), Tail(av))
              /\ opts' = r.opts
              /\ read_rc' = r.rc
              /\ optind' = r.optind
              /\ nextchar' = r.nextchar
              /\ pc' = IF r.crashed THEN "crashed" ELSE "opts"
    /\ calls' = calls + 1
    /\ UNCHANGED <<env, align_arg, align_ret, io_vars, ndebug, arena, argv, buf, ret, rets,
                   debug_enabled, req_buflen, child_pid, wait_result, result, child, others,
                   invoked, trace, run_result, main_result>>

NextOpts == ReadOptions(CmdLines, 1)

SpecOpts == InitOpts /\ [][NextOpts]_vars

NextCalls == ReadOptions(CallLines, MaxReads)

SpecCalls == InitOpts /\ [][NextCalls]_vars

---------------------------------------------------------------------------
(* Properties of trycmd_main when there is nothing to run.                 *)

\* C21: when trycmd_read_options failed, or when it succeeded with no
\* subcommand and without help, trycmd_main prints the usage text, creates
\* no child and returns non-zero, whatever the options record held before.
C21_UsageFailure ==
    (read_rc # 0 \/ (opts.opt_sub_argc = 0 /\ opts.opt_help = 0)) =>
        /\ pc \in {"main", "done"}
        /\ child = NoChild
        /\ Count("fork") = 0
        /\ pc = "done" =>
              /\ trace = <<"usage">>
              /\ out.text = UsageText
              /\ main_result # 0

---------------------------------------------------------------------------
(* Properties of trycmd_read_options and trycmd_parse_when. The command    *)
(* line is read here by the rules of the usage text: options come first,   *)
(* and the first argument that is no option, or "--", ends them.           *)

IsOptionArg(s) == Len(s) >= 2 /\ s[1] = Asc["-"] /\ s # Str(<<"-", "-">>)

RECURSIVE OptionCount(_, _)
OptionCount(args, k) ==
    IF k < Len(args) /\ IsOptionArg(args[k + 1]) THEN OptionCount(args, k + 1) ELSE k

OptionArgs(av) == SubSeq(Tail(av), 1, OptionCount(Tail(av), 0))

Rest(av) ==
    LET args == Tail(av)
        n    == OptionCount(args, 0)
    IN  IF n < Len(args) /\ args[n + 1] = Str(<<"-", "-">>)
        THEN SubSeq(args, n + 2, Len(args))
        ELSE SubSeq(args, n + 1, Len(args))

IsShortGroup(s) == IsOptionArg(s) /\ s[2] # Asc["-"]
HasShort(s, c) == IsShortGroup(s) /\ \E k \in 2..Len(s) : s[k] = Asc[c]

IsColorArg(s) ==
    \/ s \in {ColorOpt, ColourOpt}
    \/ IsPrefix(ColorOpt \o Str(<<"=">>), s)
    \/ IsPrefix(ColourOpt \o Str(<<"=">>), s)

WhenOf(s) ==
    LET eq == strchr(s, Asc["="])
    IN  IF eq = 0 THEN NullStr ELSE StrPtr(SubSeq(s, eq + 1, Len(s)))

Recognised(w) == ~w.set \/ w.val \in {WhenAuto, WhenAlways, WhenNever}

WhenColor(w) ==
    IF ~w.set \/ w.val = WhenAlways THEN "always"
    ELSE IF w.val = WhenAuto THEN "auto"
    ELSE "never"

LongNames ==
    {Str(<<"-", "-", "i", "n", "t", "e", "r", "a", "c", "t", "i", "v", "e">>),
     Str(<<"-", "-", "v", "e", "r", "b", "o", "s", "e">>),
     Str(<<"-", "-", "h", "e", "l", "p">>)}

\* An option of the usage text, well formed.
ValidOptionArg(s) ==
    \/ IsShortGroup(s) /\ \A k \in 2..Len(s) : s[k] \in {Asc["i"], Asc["v"], Asc["h"]}
    \/ s \in LongNames
    \/ IsColorArg(s) /\ Recognised(WhenOf(s))

AllValid(as) == \A k \in 1..Len(as) : ValidOptionArg(as[k])

Interactive(as) ==
    \E k \in 1..Len(as) :
        \/ HasShort(as[k], "i")
        \/ as[k] = Str(<<"-", "-", "i", "n", "t", "e", "r", "a", "c", "t", "i", "v", "e">>)

\* TRY_INTERACTIVE is the decimal writing of an integer other than 0.
IsInteger(s) ==
    LET digits == IF s # <<>> /\ s[1] \in {Asc["-"], Asc["+"]} THEN Tail(s) ELSE s
    IN  digits # <<>> /\ \A k \in 1..Len(digits) : digits[k] \in 48..57

NonZeroInteger(w) == w.set /\ IsInteger(w.val) /\ atoi(w.val) # 0

\* TRY_INTERACTIVE starts, after blanks and a sign, with digits that make a
\* number other than 0.
NonZeroAtoi(w) == w.set /\ atoi(w.val) # 0

Precedence(env_on) ==
    (calls = 1 /\ pc = "opts") =>
        LET as == OptionArgs(cmd_argv)
            cs == SelectSeq(as, IsColorArg)
        IN  /\ AllValid(as) => read_rc = 0
            /\ read_rc = 0 =>
                  /\ opts.opt_color =
                        IF cs # <<>> THEN WhenColor(WhenOf(cs[Len(cs)]))
                        ELSE IF env["TRY_COLOR"].set /\ Recognised(env["TRY_COLOR"])
                        THEN WhenColor(env["TRY_COLOR"])
                        ELSE "never"
                  /\ opts.opt_interactive = 1 <=> (Interactive(as) \/ env_on)
                  /\ opts.opt_interactive \in {0, 1}
                  /\ CStr(mem, opts.opt_shell) =
                        IF env["SHELL"].set THEN env["SHELL"].val ELSE DEF_SHELL_PATH

\* C22 as stated: the command line has precedence over the environment. The
\* color mode is that of the last --color/--colour option, else a
\* recognised TRY_COLOR, else never, and an unrecognised TRY_COLOR does not
\* make the call fail; interactive is on iff -i/--interactive is given or
\* TRY_INTERACTIVE is a non-zero integer; the shell is $SHELL when set, else
\* the default shell path.
C22_Integer == Precedence(NonZeroInteger(env["TRY_INTERACTIVE"]))

\* C22, with TRY_INTERACTIVE read as atoi reads it: the text after the
\* leading number is ignored.
C22_Atoi == Precedence(NonZeroAtoi(env["TRY_INTERACTIVE"]))

C22_Witness ==
    /\ calls = 1
    /\ read_rc = 0
    /\ cmd_argv = <<ProgName, ColorOpt \o Str(<<"=">>) \o WhenAuto, ColorOpt, Str(<<"a">>)>>
    /\ env["TRY_COLOR"] = StrPtr(Str(<<"b">>))
    /\ opts.opt_color = "always"
    /\ opts.opt_interactive = 0

\* C23: option processing stops at the first argument that is no option or
\* at "--". The subcommand list is the remaining arguments, in order and
\* unchanged, opt_sub_argc is their count, and what looks like an option
\* after that point neither sets an option nor makes the call fail.
C23_Rest ==
    (calls = 1 /\ pc = "opts") =>
        LET as == OptionArgs(cmd_argv)
        IN  /\ read_rc = 0 <=> AllValid(as)
            /\ read_rc = 0 =>
                  /\ opts.opt_sub_argc = Len(Rest(cmd_argv))
                  /\ SubStrs = Rest(cmd_argv)
                  /\ opts.opt_verbose = 1 <=> \E k \in 1..Len(as) : HasShort(as[k], "v")
                  /\ opts.opt_help = 1 <=> \E k \in 1..Len(as) : HasShort(as[k], "h")

C23_Witness ==
    /\ calls = 1
    /\ read_rc = 0
    /\ cmd_argv = <<ProgName, Str(<<"-", "i">>), Str(<<"-", "-">>), Str(<<"-", "v">>)>>
    /\ SubStrs = <<Str(<<"-", "v">>)>>
    /\ opts.opt_verbose = 0

\* C24: a string that is not exactly "never", "always" or "auto" makes
\* trycmd_parse_when return -1 with *out as it was, a NULL string means
\* always with 0, and trycmd_read_options given such a string as the value
\* of --color/--colour returns -1 with *opts_out as it was.
C24_Untouched ==
    /\ \A color \in Colors :
          /\ \A w \in BadWhens :
                trycmd_parse_when(StrPtr(w), color) = [rc |-> 0 - 1, out |-> color]
          /\ trycmd_parse_when(NullStr, color) = [rc |-> 0, out |-> "always"]
          /\ \A w \in {WhenAuto, WhenAlways, WhenNever} :
                trycmd_parse_when(StrPtr(w), color) = [rc |-> 0, out |-> WhenColor(StrPtr(w))]
    /\ (calls = 1 /\ \E k \in 1..Len(OptionArgs(cmd_argv)) :
                        /\ IsColorArg(OptionArgs(cmd_argv)[k])
                        /\ ~Recognised(WhenOf(OptionArgs(cmd_argv)[k])))
          => /\ pc = "opts"
             /\ read_rc = 0 - 1
             /\ opts = StaleOpts

C24_Witness ==
    /\ calls = 1
    /\ cmd_argv = <<ProgName, Str(<<"-", "v">>), ColorOpt \o Str(<<"=">>) \o Str(<<"b">>)>>
    /\ read_rc = 0 - 1
    /\ opts = StaleOpts

\* C29: each call starts from a fresh option parser. Whatever calls came
\* before, a call returns and writes what the first call of a process
\* returns and writes for the same argv and environment.
C29_FreshParser ==
    calls > 0 =>
        /\ pc = "opts"
        /\ LET fresh == trycmd_read_options(env, cmd_argv, opts, <<>>)
           IN  /\ read_rc = fresh.rc
               /\ fresh.rc = 0 => opts = fresh.opts

---------------------------------------------------------------------------
(* The subcommand list as the record of trycmd.h describes it.             *)

\* C25: the subcommand list needs no NULL terminator. The banner lists
\* exactly the first opt_sub_argc elements of opt_sub_argv, the arguments
\* the child is given, and nothing of what the vector holds after them.
C25_CountedList ==
    pc = "shown" =>
        out.text = BannerText(variant,
                              [opts EXCEPT !.opt_sub_argv =
                                  SubSeq(opts.opt_sub_argv, 1, opts.opt_sub_argc) \o <<NULL>>],
                              mem, ret)

---------------------------------------------------------------------------
(* A client of trycmd_align_sz, as test_trycmd_align_sz: it aligns a size, *)
(* and then aligns the result again.                                       *)

MaxSize == 16
MaxAlign == 8

\* SIZE_MAX - n
FromTop(n) == [SIZE_MAX EXCEPT ![1] = SizeBase - 1 - n]

AlignSizes == {ToSize(n) : n \in 0..MaxSize} \cup {FromTop(n) : n \in 0..MaxSize}

InitAlign ==
    \E sz \in AlignSizes, alignment \in 1..MaxAlign :
        /\ align_arg = [sz |-> sz, alignment |-> alignment]
        /\ align_ret = ToSize(0)
        /\ env = NoEnv
        /\ cmd_argv = <<>>
        /\ optind = 1
        /\ nextchar = <<>>
        /\ opts = StaleOpts
        /\ mem = NullPage
        /\ arena = [base |-> Len(NullPage), size |-> 0]
        /\ ndebug = FALSE
        /\ buf = [addr |-> NULL, len |-> 0]
        /\ argv = NULL
        /\ ret = 0
        /\ rets = {}
        /\ calls = 0
        /\ pc = "align"
        /\ NoRunner
        /\ StdStreams("util", FALSE)

\* trycmd_align_sz(sz, alignment)
AlignSz ==
    /\ pc = "align"
    /\ align_ret' = trycmd_align_sz(align_arg.sz, align_arg.alignment)
    /\ pc' = "aligned"
    /\ UNCHANGED <<align_arg, env, cmd_argv, optind, nextchar, io_vars, mem, opts, ndebug,
                   arena, argv, builder_vars, runner_vars>>

\* trycmd_align_sz(trycmd_align_sz(sz, alignment), alignment)
AlignAgain ==
    /\ pc = "aligned"
    /\ align_arg' = [align_arg EXCEPT !.sz = align_ret]
    /\ align_ret' = trycmd_align_sz(align_ret, align_arg.alignment)
    /\ pc' = "realigned"
    /\ UNCHANGED <<env, cmd_argv, optind, nextchar, io_vars, mem, opts, ndebug,
                   arena, argv, builder_vars, runner_vars>>

NextAlign == AlignSz \/ AlignAgain

SpecAlign == InitAlign /\ [][NextAlign]_vars

---------------------------------------------------------------------------
(* Properties of trycmd_align_sz.                                          *)

\* r is the smallest multiple of a that is not below sz: a multiple of a
\* among sz, sz + 1, ..., sz + a - 1.
SmallestMultiple(r, sz, a) ==
    /\ SizeMod(r, a) = 0
    /\ \E d \in 0..(a - 1) : SizeAddFrom(sz, 1, d) = [val |-> r, carry |-> 0]

\* The distance from sz to the next multiple of a, and whether that
\* multiple is a size_t.
Padding(sz, a) == (a - SizeMod(sz, a)) % a
Representable(sz, a) == SizeAddFrom(sz, 1, Padding(sz, a)).carry = 0

---------------------------------------------------------------------------
(* The program with its scheduling. The caller is one sequential process:  *)
(* a step of it that can be taken is taken, and waitpid returns once the   *)
(* child it waits for has ended. Nothing makes the child end.              *)

Fairness == WF_vars(RunWait) /\ WF_vars(RunClassify) /\ WF_vars(MainShow)

SpecLive == InitMain /\ [][Next]_vars /\ Fairness

\* C27: once the child has ended, the runner returns and the banner is
\* printed, and it is printed once only; while the child has not ended the
\* runner is in its wait and no banner is printed.
C27_WaitsForChild ==
    /\ (child.state = "zombie") ~> (pc = "done" /\ Count("banner") = 1)
    /\ [](child.state \in {"forked", "shell"} => (pc = "run_wait" /\ Count("banner") = 0))
    /\ [](Count("banner") <= 1)

C27_Witness ==
    /\ pc = "done"
    /\ child.state = "reaped"
    /\ child.exec = "ok"
    /\ Count("banner") = 1

---------------------------------------------------------------------------
(* The assertions of trycmd_make_shell_cmd, for strings of any length.     *)

\* Some byte of the n bytes at a is NUL.
TerminatedIn(m, a, n) == \E k \in 0..(n - 1) : Rd(m, a + k) = NUL

\* C28: with a subcommand list that is not empty, and whatever the lengths
\* of the shell path and of the program name, no assertion stops the
\* builder; after a build the byte at min_buflen - 2 is NUL and the byte at
\* min_buflen - 1 is the end marker, the shell path and the script end with
\* a NUL inside their slots, and every call reports the same size.
C28_NoAssertionFails ==
    opts.opt_sub_argc > 0 =>
        /\ pc # "aborted"
        /\ Cardinality(rets) <= 1
        /\ (pc = "api" /\ calls > 0 /\ buf.addr # NULL
            /\ SufficientSpace(buf.len, required_buflen(opts, mem))) =>
              LET aligned_buf == trycmd_align_ptr(buf.addr, PtrSize)
                  minb        == min_buflen(opts, mem)
                  p_shell     == aligned_buf + argc_sz(opts)
                  p_script    == p_shell + shell_sz(opts, mem)
                                 + SlotsSize(ShellOptions(opts))
              IN  /\ Rd(mem, aligned_buf + minb - 2) = NUL
                  /\ Rd(mem, aligned_buf + minb - 1) = eol_marker
                  /\ TerminatedIn(mem, p_shell, shell_sz(opts, mem))
                  /\ TerminatedIn(mem, p_script, shell_arg0_sz(opts, mem))

====
